---- MODULE Spec2Model ----
(***************************************************************************)
(* Model of the mtgjson-sdk data-access layer: the deck board reconciler   *)
(* (AddCards / RemoveCards over the three quantity maps of a deck) and the *)
(* owner-scoped create operations of the Card, Set, Deck and User          *)
(* repositories, over a document store whose collections keep their        *)
(* documents in insertion order.                                           *)
(*                                                                         *)
(* Conventions.  A Go string is a TLA+ string; where the code matches a    *)
(* string against a regular expression the model reads its characters      *)
(* through Chars.  A pointer or slice that may be nil is a sequence of at  *)
(* most one element (<<>> is nil).  Quantities are int64 in the source;    *)
(* the model keeps them far from the int64 limits, so they are integers.   *)
(* The deck model type lives in another repository: the model takes        *)
(* deck.MainBoard / SideBoard / Commander (read by GetDeckBoard) and       *)
(* deck.Contents.MainBoard / ... (written by NewDeck) to be the same maps. *)
(***************************************************************************)
EXTENDS Integers, Sequences, FiniteSets, TLC

VARIABLES
    deck,   \* the caller's in-memory *deckModel.Deck
    decks,  \* the store's "deck" collection, documents in natural order
    cards,  \* the store's "card" collection
    sets,   \* the store's "set" collection
    users,  \* the store's "user" collection
    now,    \* the wall clock util.CreateTimestampStr reads
    log,    \* the calls made so far, oldest first: arguments, result, store calls
    callers, \* the goroutines inside a call: each one's position and locals
    accounts \* the identity provider's user accounts

vars == <<deck, decks, cards, sets, users, now, log, callers, accounts>>

----------------------------------------------------------------------------
(* Bounds of the model *)

\* the largest quantity a caller passes in a delta map
MaxDelta == 2
\* the number of repository calls one behaviour makes
MaxCalls == 2
\* the largest value the clock reaches
MaxClock == 1
\* the largest quantity of a delta in the behaviours of SpecScenario
ScenarioQty == 3
\* the number of board calls in the behaviours of SpecScenario
ScenarioCalls == 3

----------------------------------------------------------------------------
(* Strings of the model and their characters *)

UuidA == "a1b2c3d4-e5f6-5789-9abc-def012345678"
UuidB == "b1b2c3d4-e5f6-5789-8abc-def012345678"
UuidV4 == "a1b2c3d4-e5f6-4789-9abc-def012345678"
Alice == "alice@example.com"
Bob == "bob@example.com"
Carol == "carol@example.com"
NotAnEmail == "not-an-email"

Chars(s) ==
    CASE s = UuidA ->
        <<"a", "1", "b", "2", "c", "3", "d", "4", "-", "e", "5", "f", "6", "-",
          "5", "7", "8", "9", "-", "9", "a", "b", "c", "-",
          "d", "e", "f", "0", "1", "2", "3", "4", "5", "6", "7", "8">>
      [] s = UuidB ->
        <<"b", "1", "b", "2", "c", "3", "d", "4", "-", "e", "5", "f", "6", "-",
          "5", "7", "8", "9", "-", "8", "a", "b", "c", "-",
          "d", "e", "f", "0", "1", "2", "3", "4", "5", "6", "7", "8">>
      [] s = UuidV4 ->
        <<"a", "1", "b", "2", "c", "3", "d", "4", "-", "e", "5", "f", "6", "-",
          "4", "7", "8", "9", "-", "9", "a", "b", "c", "-",
          "d", "e", "f", "0", "1", "2", "3", "4", "5", "6", "7", "8">>
      [] s = Alice ->
        <<"a", "l", "i", "c", "e", "@", "e", "x", "a", "m", "p", "l", "e", ".", "c", "o", "m">>
      [] s = Bob ->
        <<"b", "o", "b", "@", "e", "x", "a", "m", "p", "l", "e", ".", "c", "o", "m">>
      [] s = Carol ->
        <<"c", "a", "r", "o", "l", "@", "e", "x", "a", "m", "p", "l", "e", ".", "c", "o", "m">>
      [] s = NotAnEmail ->
        <<"n", "o", "t", "-", "a", "n", "-", "e", "m", "a", "i", "l">>
      [] OTHER -> <<>>

Digit == {"0", "1", "2", "3", "4", "5", "6", "7", "8", "9"}
HexDigit == Digit \cup {"a", "b", "c", "d", "e", "f"}
Lower == {"a", "b", "c", "d", "e", "f", "g", "h", "i", "j", "k", "l", "m",
          "n", "o", "p", "q", "r", "s", "t", "u", "v", "w", "x", "y", "z"}
Upper == {"A", "B", "C", "D", "E", "F", "G", "H", "I", "J", "K", "L", "M",
          "N", "O", "P", "Q", "R", "S", "T", "U", "V", "W", "X", "Y", "Z"}
Letter == Lower \cup Upper

\* UUIDRegexPattern: ^[0-9a-f]{8}-[0-9a-f]{4}-5[0-9a-f]{3}-[89ab][0-9a-f]{3}-[0-9a-f]{12}$
MatchesUUIDRegex(c) ==
    /\ Len(c) = 36
    /\ \A i \in 1..36 :
          IF i \in {9, 14, 19, 24} THEN c[i] = "-"
          ELSE IF i = 15 THEN c[i] = "5"
          ELSE IF i = 20 THEN c[i] \in {"8", "9", "a", "b"}
          ELSE c[i] \in HexDigit

\* ValidateUUID: whether the string matches UUIDRegex
ValidateUUID(uuid) == MatchesUUIDRegex(Chars(uuid))

\* the pattern of validateEmail: ^[\w\.-]+@[a-zA-Z\d\.-]+\.[a-zA-Z]{2,}$
MatchesEmailRegex(c) ==
    \E at \in 1..Len(c), dot \in 1..Len(c) :
        /\ 1 < at
        /\ at + 1 < dot
        /\ dot + 2 <= Len(c)
        /\ c[at] = "@"
        /\ c[dot] = "."
        /\ \A i \in 1..(at - 1) : c[i] \in Letter \cup Digit \cup {"_", ".", "-"}
        /\ \A i \in (at + 1)..(dot - 1) : c[i] \in Letter \cup Digit \cup {".", "-"}
        /\ \A i \in (dot + 1)..Len(c) : c[i] \in Letter

\* validateEmail: whether the string matches the email pattern
validateEmail(email) == MatchesEmailRegex(Chars(email))

----------------------------------------------------------------------------
(* Names and error values of the source *)

BoardMainboard == "mainBoard"
BoardSideboard == "sideBoard"
BoardCommander == "commander"
BoardNames == {BoardMainboard, BoardSideboard, BoardCommander}

SystemUser == "system"

NoError == "nil"
ErrDeckMissingId == "ErrDeckMissingId"
ErrBoardNotExist == "ErrBoardNotExist"
ErrDeckUpdateFailed == "ErrDeckUpdateFailed"
ErrNoDeck == "ErrNoDeck"
ErrDeckAlreadyExists == "ErrDeckAlreadyExists"
ErrCardMissingId == "ErrCardMissingId"
ErrInvalidUUID == "ErrInvalidUUID"
ErrNoCard == "ErrNoCard"
ErrCardAlreadyExist == "ErrCardAlreadyExist"
ErrSetMissingId == "ErrSetMissingId"
ErrNoSet == "ErrNoSet"
ErrSetAlreadyExists == "ErrSetAlreadyExists"
ErrUserMissingId == "ErrUserMissingId"
ErrInvalidEmail == "ErrInvalidEmail"
ErrNoUser == "ErrNoUser"
ErrUserAlreadyExist == "ErrUserAlreadyExist"
ErrDeckDeleteFailed == "ErrDeckDeleteFailed"
ErrSetDeleteFailed == "ErrSetDeleteFailed"
ErrCardDeleteFailed == "ErrCardDeleteFailed"
ErrUserDeleteFailed == "ErrUserDeleteFailed"
ErrNoCards == "ErrNoCards"
ErrDeckMissingContentIds == "ErrDeckMissingContentIds"
\* a Go run-time panic: the call does not return
NilDereference == "panic: nil pointer dereference"

EmptyBoard == [id \in {} |-> 0]

\* a Go map read: the zero value for a key that is not in the map
Lookup(m, id) == IF id \in DOMAIN m THEN m[id] ELSE 0

\* the meta block of a set or a deck
Meta(owner, type, created, modified) ==
    [Owner |-> owner, Type |-> type, CreationDate |-> created, ModifiedDate |-> modified]

\* util.CreateTimestampStr: the current time
CreateTimestampStr == now

----------------------------------------------------------------------------
(* The document store.  `up` says whether the driver call returns without  *)
(* an error (the store is reachable and answers).                          *)

\* one call to the store, as the log records it: the driver function, the
\* collection, the filter, the document sent, whether the driver call
\* returned without an error and what the Database method returned
StoreCall(fn, coll, query, doc, up, ok) ==
    [fn |-> fn, coll |-> coll, query |-> query, doc |-> doc, up |-> up, ok |-> ok]

\* the filter of a query by natural key, narrowed to an owner when one is given
Query(key, owner) == [key |-> key, owner |-> owner]

\* the owner a stored document carries in mtgjsonApiMeta.owner
OwnerOf(doc) == IF doc.MtgjsonApiMeta = <<>> THEN "" ELSE doc.MtgjsonApiMeta[1].Owner

\* a filter that ignores the owner
MatchesKeyAlone(key, doc, query) == key = query.key

\* whether a document with natural key `key` satisfies the filter
Matches(key, doc, query) ==
    /\ key = query.key
    /\ query.owner # "" => OwnerOf(doc) = query.owner

\* the documents of the collection, by index, that satisfy the filter of a
\* query: `field` names the natural key (Code, Email or CardId)
Hits(coll, field, query) ==
    {i \in 1..Len(coll) :
        Matches(IF field = "CardId" THEN coll[i].Identifiers[1].MtgjsonV4Id
                ELSE coll[i][field],
                coll[i], query)}

\* the first of the matching documents in natural order, 0 when none
First(hits) ==
    IF hits = {} THEN 0 ELSE CHOOSE i \in hits : \A j \in hits : i <= j

\* Database.Find: FindOne decoded into the model; false on any error,
\* the absence of a matching document included
DatabaseFind(coll, hits, up) ==
    LET i == First(hits) IN
    IF up /\ i # 0 THEN [ok |-> TRUE, doc |-> <<coll[i]>>]
    ELSE [ok |-> FALSE, doc |-> <<>>]

\* a replace that reports what the driver reported and leaves the stored
\* document as it was
DatabaseReplaceKeepsStored(coll, hits, doc, up) ==
    [coll |-> coll, ok |-> up]

\* Database.Replace: ReplaceOne; true whenever the driver returned no
\* error, also when no document matched the filter
DatabaseReplace(coll, hits, doc, up) ==
    IF ~up THEN [coll |-> coll, ok |-> FALSE]
    ELSE LET i == First(hits) IN
         [coll |-> IF i = 0 THEN coll ELSE [coll EXCEPT ![i] = doc], ok |-> TRUE]

\* an insert that reports success and stores nothing
DatabaseInsertStoresNothing(coll, doc, up) ==
    [coll |-> coll, ok |-> up]

\* an insert into a collection with a unique index over whole documents: a
\* document that is already stored is refused
DatabaseInsertUnique(coll, doc, up) ==
    IF up /\ ~(\E k \in 1..Len(coll) : coll[k] = doc)
    THEN [coll |-> Append(coll, doc), ok |-> TRUE]
    ELSE [coll |-> coll, ok |-> FALSE]

\* Database.Insert: InsertOne; false on a driver error
DatabaseInsert(coll, doc, up) ==
    IF up THEN [coll |-> Append(coll, doc), ok |-> TRUE]
    ELSE [coll |-> coll, ok |-> FALSE]

\* a delete that removes every document the filter matches
DatabaseDeleteEvery(coll, hits, up) ==
    IF ~up \/ hits = {} THEN [coll |-> coll, ok |-> FALSE, deleted |-> 0]
    ELSE [coll |-> SelectSeq(coll, LAMBDA doc : \A i \in hits : coll[i] # doc),
          ok |-> TRUE, deleted |-> 1]

\* Database.Delete: DeleteOne removes the first matching document; false on
\* a driver error and when nothing was deleted
DatabaseDelete(coll, hits, up) ==
    LET i == First(hits) IN
    IF ~up \/ i = 0 THEN [coll |-> coll, ok |-> FALSE, deleted |-> 0]
    ELSE [coll |-> [k \in 1..(Len(coll) - 1) |-> IF k < i THEN coll[k] ELSE coll[k + 1]],
          ok |-> TRUE, deleted |-> 1]

\* Database.FindMultiple: Find with {key: {$in: values}}, every matching
\* document in natural order; false on a driver error
DatabaseFindMultiple(coll, values, up) ==
    IF ~up THEN [ok |-> FALSE, docs |-> <<>>]
    ELSE [ok |-> TRUE,
          docs |-> SelectSeq(coll, LAMBDA doc :
                       \E k \in 1..Len(values) :
                           doc.Identifiers[1].MtgjsonV4Id = values[k])]

----------------------------------------------------------------------------
(* Deck repository *)

\* GetDeck: the first deck with the code, of the owner when one is given
GetDeck(coll, code, owner, up) ==
    LET r == DatabaseFind(coll, Hits(coll, "Code", Query(code, owner)), up)
    IN [deck  |-> r.doc,
        err   |-> IF r.ok THEN NoError ELSE ErrNoDeck,
        calls |-> <<StoreCall("Find", "deck", Query(code, owner), <<>>, up, r.ok)>>]

\* ReplaceDeck: one Replace filtered on the deck's code alone
ReplaceDeck(coll, d, up) ==
    LET r == DatabaseReplace(coll, Hits(coll, "Code", Query(d.Code, "")), d, up)
    IN [decks |-> r.coll,
        err   |-> IF r.ok THEN NoError ELSE ErrDeckUpdateFailed,
        calls |-> <<StoreCall("Replace", "deck", Query(d.Code, ""), <<d>>, up, r.ok)>>]

----------------------------------------------------------------------------
(* The board reconciler *)

\* the three boards of a deck that has them
Boards(main, side, commander) ==
    [MainBoard |-> main, SideBoard |-> side, Commander |-> commander]

\* a GetDeckBoard that answers an unknown board name with the main board
GetDeckBoardDefaultsToMain(d, board) ==
    IF d.Contents = <<>>
    THEN [board |-> EmptyBoard, err |-> NilDereference]
    ELSE IF board = BoardSideboard
    THEN [board |-> d.Contents[1].SideBoard, err |-> NoError]
    ELSE IF board = BoardCommander
    THEN [board |-> d.Contents[1].Commander, err |-> NoError]
    ELSE [board |-> d.Contents[1].MainBoard, err |-> NoError]

\* GetDeckBoard: the named board of the deck, or ErrBoardNotExist
GetDeckBoard(d, board) ==
    IF board \notin BoardNames
    THEN [board |-> EmptyBoard, err |-> ErrBoardNotExist]
    ELSE IF d.Contents = <<>>
    THEN [board |-> EmptyBoard, err |-> NilDereference]
    ELSE IF board = BoardMainboard
    THEN [board |-> d.Contents[1].MainBoard, err |-> NoError]
    ELSE IF board = BoardSideboard
    THEN [board |-> d.Contents[1].SideBoard, err |-> NoError]
    ELSE [board |-> d.Contents[1].Commander, err |-> NoError]

\* a put-back that assigns the merged board to all three boards
SetDeckBoardEveryBoard(d, board, sourceBoard) ==
    [d EXCEPT !.Contents[1].MainBoard = sourceBoard,
              !.Contents[1].SideBoard = sourceBoard,
              !.Contents[1].Commander = sourceBoard]

\* the three assignments that put the merged board back on the deck
SetDeckBoard(d, board, sourceBoard) ==
    [d EXCEPT !.Contents[1].MainBoard = IF board = BoardMainboard THEN sourceBoard ELSE @,
              !.Contents[1].SideBoard = IF board = BoardSideboard THEN sourceBoard ELSE @,
              !.Contents[1].Commander = IF board = BoardCommander THEN sourceBoard ELSE @]

\* a merge loop that sets every entry of the delta, also a non-zero one
MergeAddOverwrites(sourceBoard, contents) ==
    [id \in DOMAIN sourceBoard \cup DOMAIN contents |->
        IF id \in DOMAIN contents THEN contents[id] ELSE sourceBoard[id]]

\* the merge loop of AddCards: add to a non-zero entry, else set the entry
MergeAdd(sourceBoard, contents) ==
    [id \in DOMAIN sourceBoard \cup DOMAIN contents |->
        IF id \in DOMAIN contents
        THEN LET check == Lookup(sourceBoard, id) IN
             IF check # 0 THEN check + contents[id] ELSE contents[id]
        ELSE sourceBoard[id]]

\* what the loop of RemoveCards leaves for an id of the delta before its
\* zero test: the difference for a non-zero entry, else the zero it read
Subtracted(sourceBoard, contents, id) ==
    LET check == Lookup(sourceBoard, id) IN
    IF check # 0 THEN check - contents[id] ELSE 0

\* a merge loop of RemoveCards without the delete of an entry that reads zero
MergeRemoveKeepsZero(sourceBoard, contents) ==
    [id \in DOMAIN sourceBoard \cup DOMAIN contents |->
        IF id \in DOMAIN contents
        THEN Subtracted(sourceBoard, contents, id)
        ELSE sourceBoard[id]]

\* the merge loop of RemoveCards: subtract from a non-zero entry, then
\* delete the entry when it reads zero
MergeRemove(sourceBoard, contents) ==
    LET kept == {id \in DOMAIN sourceBoard \cup DOMAIN contents :
                    id \in DOMAIN contents =>
                        Subtracted(sourceBoard, contents, id) # 0}
    IN [id \in kept |->
           IF id \in DOMAIN contents
           THEN Subtracted(sourceBoard, contents, id)
           ELSE sourceBoard[id]]

\* the result of a call that returns before it reaches the store
Rejected(d, coll, err) == [deck |-> d, decks |-> coll, err |-> err, calls |-> <<>>]

\* a tail that hands the caller the merged deck only when the replace worked
PutBackOnSuccess(d, coll, board, sourceBoard, up) ==
    LET merged == SetDeckBoard(d, board, sourceBoard)
        r == ReplaceDeck(coll, merged, up)
    IN [deck |-> IF r.err = NoError THEN merged ELSE d,
        decks |-> r.decks, err |-> r.err, calls |-> r.calls]

\* a tail that replaces the stored deck by the deck as it was before the merge
PutBackUnmerged(d, coll, board, sourceBoard, up) ==
    LET merged == SetDeckBoard(d, board, sourceBoard)
        r == ReplaceDeck(coll, d, up)
    IN [deck |-> merged, decks |-> r.decks, err |-> r.err, calls |-> r.calls]

\* the tail of AddCards and RemoveCards: the board is put back on the deck
\* and the deck replaced in the store
PutBack(d, coll, board, sourceBoard, up) ==
    LET merged == SetDeckBoard(d, board, sourceBoard)
        r == ReplaceDeck(coll, merged, up)
    IN [deck |-> merged, decks |-> r.decks, err |-> r.err, calls |-> r.calls]

\* AddCards as a function of the deck, the collection and the arguments
AddCardsResult(d, coll, board, contents, up) ==
    IF d.Code = "" THEN Rejected(d, coll, ErrDeckMissingId)
    ELSE LET src == GetDeckBoard(d, board) IN
         IF src.err # NoError THEN Rejected(d, coll, src.err)
         ELSE PutBack(d, coll, board, MergeAdd(src.board, contents), up)

\* RemoveCards as a function of the deck, the collection and the arguments
RemoveCardsResult(d, coll, board, contents, up) ==
    IF d.Code = "" THEN Rejected(d, coll, ErrDeckMissingId)
    ELSE LET src == GetDeckBoard(d, board) IN
         IF src.err # NoError THEN Rejected(d, coll, src.err)
         ELSE PutBack(d, coll, board, MergeRemove(src.board, contents), up)

\* the four collections of the store
Store(d, c, s, u) == [decks |-> d, cards |-> c, sets |-> s, users |-> u]

\* what the log keeps of one call: the operation, its arguments, the error
\* it returned, the store calls it issued in order, the caller's deck and
\* the store before and after it, and the time of the call
Call(op, args, err, calls, after, stored) ==
    [op |-> op, args |-> args, err |-> err, calls |-> calls,
     before |-> deck, after |-> after,
     store |-> [before |-> Store(decks, cards, sets, users), after |-> stored],
     at |-> now]

AddCards(board, contents, up) ==
    LET r == AddCardsResult(deck, decks, board, contents, up) IN
    /\ deck' = r.deck
    /\ decks' = r.decks
    /\ log' = Append(log, Call("AddCards", [board |-> board, contents |-> contents],
                               r.err, r.calls, r.deck,
                               Store(r.decks, cards, sets, users)))
    /\ UNCHANGED <<cards, sets, users, now, callers, accounts>>

RemoveCards(board, contents, up) ==
    LET r == RemoveCardsResult(deck, decks, board, contents, up) IN
    /\ deck' = r.deck
    /\ decks' = r.decks
    /\ log' = Append(log, Call("RemoveCards", [board |-> board, contents |-> contents],
                               r.err, r.calls, r.deck,
                               Store(r.decks, cards, sets, users)))
    /\ UNCHANGED <<cards, sets, users, now, callers, accounts>>

----------------------------------------------------------------------------
(* Create: NewUser, NewCard, NewSet, NewDeck.  `f` says, for each store    *)
(* call the operation may make, whether the driver call returns without    *)
(* an error: f.owner (the owner lookup), f.probe (the existence probe),    *)
(* f.insert (the insert).                                                  *)

\* the result of a create that returns: the entity as the call left it,
\* the collection it inserts into, the error and the store calls
Created(entity, coll, err, calls) ==
    [entity |-> entity, coll |-> coll, err |-> err, calls |-> calls]

\* GetUser: the user with the email
GetUser(coll, email, up) ==
    IF email = "" THEN [user |-> <<>>, err |-> ErrUserMissingId, calls |-> <<>>]
    ELSE IF ~validateEmail(email)
    THEN [user |-> <<>>, err |-> ErrInvalidEmail, calls |-> <<>>]
    ELSE LET r == DatabaseFind(coll, Hits(coll, "Email", Query(email, "")), up)
         IN [user  |-> r.doc,
             err   |-> IF r.ok THEN NoError ELSE ErrNoUser,
             calls |-> <<StoreCall("Find", "user", Query(email, ""), <<>>, up, r.ok)>>]

\* owner steps that take any owner without looking the user up
ResolveOwnerTrusting(coll, owner, up) ==
    [owner |-> IF owner = "" THEN SystemUser ELSE owner, err |-> NoError, calls |-> <<>>]

\* the owner steps shared by NewCard, NewSet and NewDeck: an empty owner is
\* the system user; any other owner than the system user must be a user
ResolveOwner(coll, owner, up) ==
    LET o == IF owner = "" THEN SystemUser ELSE owner IN
    IF o = SystemUser THEN [owner |-> o, err |-> NoError, calls |-> <<>>]
    ELSE LET g == GetUser(coll, o, up) IN
         [owner |-> o, err |-> g.err, calls |-> g.calls]

\* a required-field test that looks at the key alone
MissingIdKeyOnly(name, key) == key = ""

\* the required-field test of NewCard, NewSet and NewDeck
MissingId(name, key) == name = "" \/ key = ""

\* NewUser: validate, probe by email, default the owned lists, insert
NewUserResult(u, coll, f) ==
    IF u.Username = "" \/ u.Email = "" \/ u.Auth0Id = ""
    THEN Created(u, coll, ErrUserMissingId, <<>>)
    ELSE IF ~validateEmail(u.Email) THEN Created(u, coll, ErrInvalidEmail, <<>>)
    ELSE LET g == GetUser(coll, u.Email, f.probe) IN
         IF g.err # ErrNoUser THEN Created(u, coll, ErrUserAlreadyExist, g.calls)
         ELSE LET default(x) == IF Len(x) = 0 THEN <<>> ELSE x
                  filled == [u EXCEPT !.OwnedCards = default(@),
                                      !.OwnedSets = default(@),
                                      !.OwnedDecks = default(@)]
                  ins == DatabaseInsert(coll, filled, f.insert)
              IN Created(filled, ins.coll, NoError,
                         g.calls \o <<StoreCall("Insert", "user", Query(u.Email, ""),
                                                <<filled>>, f.insert, ins.ok)>>)

\* the id of a card that has identifiers
CardId(card) == card.Identifiers[1].MtgjsonV4Id

\* GetCard: the first card with the uuid, of the owner when one is given
GetCard(coll, uuid, owner, up) ==
    IF ~ValidateUUID(uuid) THEN [card |-> <<>>, err |-> ErrInvalidUUID, calls |-> <<>>]
    ELSE LET r == DatabaseFind(coll, Hits(coll, "CardId", Query(uuid, owner)), up)
         IN [card  |-> r.doc,
             err   |-> IF r.ok THEN NoError ELSE ErrNoCard,
             calls |-> <<StoreCall("Find", "card", Query(uuid, owner), <<>>, up, r.ok)>>]

\* the defaults NewCard gives the optional substructures, and its meta block
FilledCard(card, owner) ==
    LET default(x) == IF x = <<>> THEN <<"empty">> ELSE x IN
    [card EXCEPT !.LeadershipSkills = default(@), !.PurchaseUrls = default(@),
                 !.Legalities = default(@), !.RelatedCards = default(@),
                 !.Rulings = default(@), !.SourceProducts = default(@),
                 !.ForeignData = default(@),
                 !.MtgjsonApiMeta =
                     <<[Owner |-> owner, Type |-> "Card", Subtype |-> "Set",
                        CreationDate |-> CreateTimestampStr,
                        ModifiedDate |-> CreateTimestampStr]>>]

\* NewCard: validate, resolve the owner, probe, default, stamp, insert
NewCardResult(card, coll, userColl, owner, f) ==
    IF card.Identifiers = <<>> THEN Created(card, coll, ErrCardMissingId, <<>>)
    ELSE IF MissingId(card.Name, CardId(card))
    THEN Created(card, coll, ErrCardMissingId, <<>>)
    ELSE LET o == ResolveOwner(userColl, owner, f.owner) IN
         IF o.err # NoError THEN Created(card, coll, o.err, o.calls)
         ELSE LET g == GetCard(coll, CardId(card), o.owner, f.probe) IN
              IF g.err # ErrNoCard
              THEN Created(card, coll, ErrCardAlreadyExist, o.calls \o g.calls)
              ELSE LET filled == FilledCard(card, o.owner)
                       ins == DatabaseInsert(coll, filled, f.insert)
                   IN Created(filled, ins.coll, NoError,
                              o.calls \o g.calls \o
                              <<StoreCall("Insert", "card", Query(CardId(card), ""),
                                          <<filled>>, f.insert, ins.ok)>>)

\* GetSet: the first set with the code, of the owner when one is given
GetSet(coll, code, owner, up) ==
    LET r == DatabaseFind(coll, Hits(coll, "Code", Query(code, owner)), up)
    IN [set   |-> r.doc,
        err   |-> IF r.ok THEN NoError ELSE ErrNoSet,
        calls |-> <<StoreCall("Find", "set", Query(code, owner), <<>>, up, r.ok)>>]

\* NewSet: validate, resolve the owner, probe, default, stamp, insert
NewSetResult(s, coll, userColl, owner, f) ==
    IF MissingId(s.Name, s.Code) THEN Created(s, coll, ErrSetMissingId, <<>>)
    ELSE LET o == ResolveOwner(userColl, owner, f.owner) IN
         IF o.err # NoError THEN Created(s, coll, o.err, o.calls)
         ELSE LET g == GetSet(coll, s.Code, o.owner, f.probe) IN
              IF g.err # ErrNoSet
              THEN Created(s, coll, ErrSetAlreadyExists, o.calls \o g.calls)
              ELSE LET filled ==
                           [s EXCEPT !.ContentIds = IF Len(@) = 0 THEN <<>> ELSE @,
                                     !.ReleaseDate =
                                         IF @ = <<>> THEN <<CreateTimestampStr>> ELSE @,
                                     !.MtgjsonApiMeta =
                                         <<Meta(o.owner, "Set", CreateTimestampStr,
                                                CreateTimestampStr)>>]
                       ins == DatabaseInsert(coll, filled, f.insert)
                   IN Created(filled, ins.coll, NoError,
                              o.calls \o g.calls \o
                              <<StoreCall("Insert", "set", Query(s.Code, ""),
                                          <<filled>>, f.insert, ins.ok)>>)

\* NewDeck: validate, resolve the owner, probe, default, stamp, insert
\* the deck NewDeck inserts: contents and release date defaulted, meta stamped
FilledDeck(d, owner) ==
    [d EXCEPT !.Contents =
                  IF @ = <<>>
                  THEN <<Boards(EmptyBoard, EmptyBoard, EmptyBoard)>>
                  ELSE @,
              !.ReleaseDate =
                  IF @ = <<>> THEN <<CreateTimestampStr>> ELSE @,
              !.MtgjsonApiMeta =
                  <<Meta(owner, "Deck", CreateTimestampStr, CreateTimestampStr)>>]

NewDeckResult(d, coll, userColl, owner, f) ==
    IF MissingId(d.Name, d.Code) THEN Created(d, coll, ErrDeckMissingId, <<>>)
    ELSE LET o == ResolveOwner(userColl, owner, f.owner) IN
         IF o.err # NoError THEN Created(d, coll, o.err, o.calls)
         ELSE LET g == GetDeck(coll, d.Code, o.owner, f.probe) IN
              IF g.err # ErrNoDeck
              THEN Created(d, coll, ErrDeckAlreadyExists, o.calls \o g.calls)
              ELSE LET filled == FilledDeck(d, o.owner)
                       ins == DatabaseInsert(coll, filled, f.insert)
                   IN Created(filled, ins.coll, NoError,
                              o.calls \o g.calls \o
                              <<StoreCall("Insert", "deck", Query(d.Code, ""),
                                          <<filled>>, f.insert, ins.ok)>>)

\* the arguments of a create, as the log records them
CreateArgs(entity, owner) == [entity |-> entity, owner |-> owner]

NewUser(u, f) ==
    LET r == NewUserResult(u, users, f) IN
    /\ users' = r.coll
    /\ log' = Append(log, Call("NewUser", CreateArgs(u, ""), r.err, r.calls, deck,
                               Store(decks, cards, sets, r.coll)))
    /\ UNCHANGED <<deck, decks, cards, sets, now, callers, accounts>>

NewCard(card, owner, f) ==
    LET r == NewCardResult(card, cards, users, owner, f) IN
    /\ cards' = r.coll
    /\ log' = Append(log, Call("NewCard", CreateArgs(card, owner), r.err, r.calls,
                               deck, Store(decks, r.coll, sets, users)))
    /\ UNCHANGED <<deck, decks, sets, users, now, callers, accounts>>

NewSet(s, owner, f) ==
    LET r == NewSetResult(s, sets, users, owner, f) IN
    /\ sets' = r.coll
    /\ log' = Append(log, Call("NewSet", CreateArgs(s, owner), r.err, r.calls,
                               deck, Store(decks, cards, r.coll, users)))
    /\ UNCHANGED <<deck, decks, cards, users, now, callers, accounts>>

\* NewDeck fills in the deck the caller passes: it becomes the caller's deck
NewDeck(d, owner, f) ==
    LET r == NewDeckResult(d, decks, users, owner, f) IN
    /\ deck' = r.entity
    /\ decks' = r.coll
    /\ log' = Append(log, Call("NewDeck", CreateArgs(d, owner), r.err, r.calls,
                               r.entity, Store(r.coll, cards, sets, users)))
    /\ UNCHANGED <<cards, sets, users, now, callers, accounts>>

----------------------------------------------------------------------------
(* Delete: DeleteDeck, DeleteSet, DeleteCard, DeleteUser *)

\* the result of a delete: the collection, the error and the store calls
Deleted(coll, err, calls) == [coll |-> coll, err |-> err, calls |-> calls]

\* DeleteDeck: one Delete by code, of the owner when one is given
DeleteDeckResult(coll, code, owner, up) ==
    LET r == DatabaseDelete(coll, Hits(coll, "Code", Query(code, owner)), up) IN
    Deleted(r.coll,
            IF ~r.ok THEN ErrNoDeck
            ELSE IF r.deleted # 1 THEN ErrDeckDeleteFailed ELSE NoError,
            <<StoreCall("Delete", "deck", Query(code, owner), <<>>, up, r.ok)>>)

\* DeleteSet: one Delete by code, of the owner when one is given
DeleteSetResult(coll, code, owner, up) ==
    LET r == DatabaseDelete(coll, Hits(coll, "Code", Query(code, owner)), up) IN
    Deleted(r.coll,
            IF ~r.ok THEN ErrNoSet
            ELSE IF r.deleted # 1 THEN ErrSetDeleteFailed ELSE NoError,
            <<StoreCall("Delete", "set", Query(code, owner), <<>>, up, r.ok)>>)

\* DeleteCard: one Delete by identifier, of the owner when one is given; the
\* identifier is not validated
DeleteCardResult(coll, uuid, owner, up) ==
    LET r == DatabaseDelete(coll, Hits(coll, "CardId", Query(uuid, owner)), up) IN
    Deleted(r.coll,
            IF ~r.ok THEN ErrNoCard
            ELSE IF r.deleted < 1 THEN ErrCardDeleteFailed ELSE NoError,
            <<StoreCall("Delete", "card", Query(uuid, owner), <<>>, up, r.ok)>>)

\* DeleteUser: GetUser, then one Delete by email
DeleteUserResult(coll, email, upFind, upDelete) ==
    LET g == GetUser(coll, email, upFind) IN
    IF g.err # NoError THEN Deleted(coll, g.err, g.calls)
    ELSE LET r == DatabaseDelete(coll, Hits(coll, "Email", Query(email, "")), upDelete) IN
         Deleted(r.coll, IF r.ok THEN NoError ELSE ErrUserDeleteFailed,
                 g.calls \o <<StoreCall("Delete", "user", Query(email, ""), <<>>,
                                        upDelete, r.ok)>>)

\* the arguments of a get or a delete, as the log records them
KeyArgs(key, owner) == [key |-> key, owner |-> owner]

\* a call of the log together with the document the call returned, if any
Returned(call, result) == [result |-> result] @@ call

DeleteDeck(code, owner, up) ==
    LET r == DeleteDeckResult(decks, code, owner, up) IN
    /\ decks' = r.coll
    /\ log' = Append(log, Call("DeleteDeck", KeyArgs(code, owner), r.err, r.calls,
                               deck, Store(r.coll, cards, sets, users)))
    /\ UNCHANGED <<deck, cards, sets, users, now, callers, accounts>>

DeleteSet(code, owner, up) ==
    LET r == DeleteSetResult(sets, code, owner, up) IN
    /\ sets' = r.coll
    /\ log' = Append(log, Call("DeleteSet", KeyArgs(code, owner), r.err, r.calls,
                               deck, Store(decks, cards, r.coll, users)))
    /\ UNCHANGED <<deck, decks, cards, users, now, callers, accounts>>

DeleteCard(uuid, owner, up) ==
    LET r == DeleteCardResult(cards, uuid, owner, up) IN
    /\ cards' = r.coll
    /\ log' = Append(log, Call("DeleteCard", KeyArgs(uuid, owner), r.err, r.calls,
                               deck, Store(decks, r.coll, sets, users)))
    /\ UNCHANGED <<deck, decks, sets, users, now, callers, accounts>>

DeleteUser(email, upFind, upDelete) ==
    LET r == DeleteUserResult(users, email, upFind, upDelete) IN
    /\ users' = r.coll
    /\ log' = Append(log, Call("DeleteUser", KeyArgs(email, ""), r.err, r.calls,
                               deck, Store(decks, cards, sets, r.coll)))
    /\ UNCHANGED <<deck, decks, cards, sets, now, callers, accounts>>

\* a get changes nothing; the caller of GetDeck holds the deck it returned
ReadDeck(code, owner, up) ==
    LET r == GetDeck(decks, code, owner, up) IN
    /\ deck' = IF r.err = NoError THEN r.deck[1] ELSE deck
    /\ log' = Append(log, Returned(Call("GetDeck", KeyArgs(code, owner), r.err, r.calls,
                                        IF r.err = NoError THEN r.deck[1] ELSE deck,
                                        Store(decks, cards, sets, users)),
                                   r.deck))
    /\ UNCHANGED <<decks, cards, sets, users, now, callers, accounts>>

ReadSet(code, owner, up) ==
    LET r == GetSet(sets, code, owner, up) IN
    /\ log' = Append(log, Returned(Call("GetSet", KeyArgs(code, owner), r.err, r.calls,
                                        deck, Store(decks, cards, sets, users)),
                                   r.set))
    /\ UNCHANGED <<deck, decks, cards, sets, users, now, callers, accounts>>

ReadCard(uuid, owner, up) ==
    LET r == GetCard(cards, uuid, owner, up) IN
    /\ log' = Append(log, Returned(Call("GetCard", KeyArgs(uuid, owner), r.err, r.calls,
                                        deck, Store(decks, cards, sets, users)),
                                   r.card))
    /\ UNCHANGED <<deck, decks, cards, sets, users, now, callers, accounts>>

----------------------------------------------------------------------------
(* Contents: GetCards, AllCardIds, GetDeckContents, GetSetContents *)

\* a card lookup that fails unless every id it asks for is stored
GetCardsEveryIdOrNone(coll, ids, up) ==
    LET r == DatabaseFindMultiple(coll, ids, up)
        all == \A k \in 1..Len(ids) :
                   \E j \in 1..Len(r.docs) : r.docs[j].Identifiers[1].MtgjsonV4Id = ids[k]
    IN [cards |-> IF r.ok /\ all THEN r.docs ELSE <<>>,
        err   |-> IF r.ok /\ all THEN NoError ELSE ErrNoCards,
        calls |-> <<StoreCall("FindMultiple", "card", Query(ids, ""), <<>>, up, r.ok)>>]

\* a lookup of the cards one by one: a find for every identifier
GetCardsOneByOne(coll, ids, up) ==
    LET r == DatabaseFindMultiple(coll, ids, up) IN
    [cards |-> r.docs,
     err   |-> IF r.ok THEN NoError ELSE ErrNoCards,
     calls |-> [k \in 1..Len(ids) |->
                   StoreCall("Find", "card", Query(ids[k], ""), <<>>, up, r.ok)]]

\* GetCards: one FindMultiple on the card identifiers
GetCards(coll, ids, up) ==
    LET r == DatabaseFindMultiple(coll, ids, up) IN
    [cards |-> r.docs,
     err   |-> IF r.ok THEN NoError ELSE ErrNoCards,
     calls |-> <<StoreCall("FindMultiple", "card", Query(ids, ""), <<>>, up, r.ok)>>]

\* the keys of a Go map as a slice; the order of iteration is not specified
\* and nothing below depends on it
Keys(m) ==
    LET n == Cardinality(DOMAIN m) IN
    CHOOSE s \in [1..n -> DOMAIN m] : \A id \in DOMAIN m : \E k \in 1..n : s[k] = id

\* AllCardIds: the keys of the three boards appended, a key once per board
AllCardIds(contents) ==
    Keys(contents.MainBoard) \o Keys(contents.SideBoard) \o Keys(contents.Commander)

\* the loop of GetDeckContents for one board: an entry for every returned
\* card whose id the board holds with a non-zero quantity; a later card
\* with the same id replaces the entry
BoardContents(board, allCards) ==
    LET ids == {allCards[k].Identifiers[1].MtgjsonV4Id : k \in 1..Len(allCards)}
        last(id) == CHOOSE k \in 1..Len(allCards) :
                        /\ allCards[k].Identifiers[1].MtgjsonV4Id = id
                        /\ \A j \in (k + 1)..Len(allCards) :
                               allCards[j].Identifiers[1].MtgjsonV4Id # id
    IN [id \in {x \in ids : Lookup(board, x) # 0} |->
           [Quantity |-> board[id], Card |-> allCards[last(id)]]]

\* GetDeckContents as a function of the deck and the card collection
GetDeckContentsResult(d, coll, up) ==
    IF d.Contents = <<>>
    THEN [contents |-> <<>>, err |-> ErrDeckMissingContentIds, calls |-> <<>>]
    ELSE IF d.Code = ""
    THEN [contents |-> <<>>, err |-> ErrDeckMissingId, calls |-> <<>>]
    ELSE IF d.MtgjsonApiMeta = <<>>
    THEN [contents |-> <<>>, err |-> NilDereference, calls |-> <<>>]
    ELSE IF d.MtgjsonApiMeta[1].Owner = ""
    THEN [contents |-> <<>>, err |-> ErrDeckMissingId, calls |-> <<>>]
    ELSE LET g == GetCards(coll, AllCardIds(d.Contents[1]), up) IN
         IF g.err # NoError THEN [contents |-> <<>>, err |-> g.err, calls |-> g.calls]
         ELSE [contents |-> <<Boards(BoardContents(d.Contents[1].MainBoard, g.cards),
                                     BoardContents(d.Contents[1].SideBoard, g.cards),
                                     BoardContents(d.Contents[1].Commander, g.cards))>>,
               err |-> NoError, calls |-> g.calls]

\* GetSetContents as a function of the set and the card collection: the
\* contents it assigns to the set, none when it returns before
GetSetContentsResult(s, coll, up) ==
    IF Len(s.ContentIds) = 0
    THEN [contents |-> <<>>, err |-> NoError, calls |-> <<>>]
    ELSE LET g == GetCards(coll, s.ContentIds, up) IN
         IF g.err # NoError THEN [contents |-> <<>>, err |-> g.err, calls |-> g.calls]
         ELSE [contents |-> <<g.cards>>, err |-> NoError, calls |-> g.calls]

GetDeckContents(up) ==
    LET r == GetDeckContentsResult(deck, cards, up) IN
    /\ log' = Append(log, Returned(Call("GetDeckContents", [deck |-> deck], r.err, r.calls,
                                        deck, Store(decks, cards, sets, users)),
                                   r.contents))
    /\ UNCHANGED <<deck, decks, cards, sets, users, now, callers, accounts>>

GetSetContents(s, up) ==
    LET r == GetSetContentsResult(s, cards, up) IN
    /\ log' = Append(log, Returned(Call("GetSetContents", [set |-> s], r.err, r.calls,
                                        deck, Store(decks, cards, sets, users)),
                                   r.contents))
    /\ UNCHANGED <<deck, decks, cards, sets, users, now, callers, accounts>>

----------------------------------------------------------------------------
(* The content identifiers of a set *)

ErrSetUpdateFailed == "ErrSetUpdateFailed"
ErrMissingMetaApi == "ErrMissingMetaApi"
IndexOutOfRange == "panic: slice bounds out of range"

\* ReplaceSet: one replace by code; ErrSetUpdateFailed when Database.Replace
\* returns false
ReplaceSet(coll, s, up) ==
    LET r == DatabaseReplace(coll, Hits(coll, "Code", Query(s.Code, "")), s, up)
    IN [sets  |-> r.coll,
        err   |-> IF r.ok THEN NoError ELSE ErrSetUpdateFailed,
        calls |-> <<StoreCall("Replace", "set", Query(s.Code, ""), <<s>>, up, r.ok)>>]

\* slices.Delete(s, i, i+1) on a slice of length `len` over the array `mem`:
\* the elements after i move down by one; the vacated last element is zeroed
\* by the toolchains that clear it and keeps its value with the others
SlicesDelete(mem, len, i, cleared) ==
    [k \in 1..Len(mem) |->
        IF k >= i /\ k < len THEN mem[k + 1]
        ELSE IF k = len /\ cleared THEN ""
        ELSE mem[k]]

\* the inner loop of RemoveCards for one uuid: the range runs over the
\* length the slice had when the loop began and reads the array the deletes
\* write to; a delete at an index past the slice's length panics
RemoveEach(ids, uuid, cleared) ==
    LET n == Len(ids)
        scan[i \in 0..n] ==
            IF i = 0 THEN [mem |-> ids, len |-> n, panic |-> FALSE]
            ELSE LET s == scan[i - 1] IN
                 IF s.panic \/ s.mem[i] # uuid THEN s
                 ELSE IF i > s.len THEN [s EXCEPT !.panic = TRUE]
                 ELSE [mem |-> SlicesDelete(s.mem, s.len, i, cleared),
                       len |-> s.len - 1, panic |-> FALSE]
    IN [ids |-> SubSeq(scan[n].mem, 1, scan[n].len), panic |-> scan[n].panic]

\* the outer loop of RemoveCards: the inner loop for every uuid in order
RemoveAll(ids, uuids, cleared) ==
    LET pass[k \in 0..Len(uuids)] ==
            IF k = 0 THEN [ids |-> ids, panic |-> FALSE]
            ELSE IF pass[k - 1].panic THEN pass[k - 1]
            ELSE RemoveEach(pass[k - 1].ids, uuids[k], cleared)
    IN pass[Len(uuids)]

\* RemoveCards of a set as a function of the set and the set collection:
\* the caller's set and the collection after it, the error, the store calls
SetRemoveCardsResult(s, coll, uuids, cleared, up) ==
    IF Len(uuids) = 0 THEN [set |-> s, sets |-> coll, err |-> NoError, calls |-> <<>>]
    ELSE LET r == RemoveAll(s.ContentIds, uuids, cleared)
             removed == [s EXCEPT !.ContentIds = r.ids]
         IN IF r.panic
            THEN [set |-> removed, sets |-> coll, err |-> IndexOutOfRange, calls |-> <<>>]
            ELSE IF s.MtgjsonApiMeta = <<>>
            THEN [set |-> removed, sets |-> coll, err |-> ErrMissingMetaApi,
                  calls |-> <<>>]
            ELSE LET stamped == [removed EXCEPT
                                    !.MtgjsonApiMeta[1].ModifiedDate = CreateTimestampStr]
                     p == ReplaceSet(coll, stamped, up)
                 IN [set |-> stamped, sets |-> p.sets, err |-> p.err, calls |-> p.calls]

SetRemoveCards(s, uuids, cleared, up) ==
    LET r == SetRemoveCardsResult(s, sets, uuids, cleared, up) IN
    /\ sets' = r.sets
    /\ log' = Append(log, Returned(Call("RemoveCards", [set |-> s, cards |-> uuids],
                                        r.err, r.calls, deck,
                                        Store(decks, cards, r.sets, users)),
                                   <<r.set>>))
    /\ UNCHANGED <<deck, decks, cards, users, now, callers, accounts>>

----------------------------------------------------------------------------
(* Concurrent callers: a call proceeds from one store call to the next, and *)
(* the store calls of different callers interleave                         *)

\* a caller outside any call
Idle == [pc |-> "idle", op |-> "", entity |-> <<>>, owner |-> "", err |-> NoError]

\* a caller inside a call: the next step, the model it holds, the owner
At(pc, op, entity, owner, err) ==
    [pc |-> pc, op |-> op, entity |-> <<entity>>, owner |-> owner, err |-> err]

\* one step of a caller: its store calls, its model and the store around it
Step(c, op, step, args, to, calls, stored) ==
    [caller |-> c, op |-> op, step |-> step, args |-> args,
     err |-> to.err, pc |-> to.pc, calls |-> calls,
     local |-> [before |-> callers[c].entity, after |-> to.entity],
     store |-> [before |-> Store(decks, cards, sets, users), after |-> stored],
     at |-> now]

\* GetDeck by a caller: on success the caller holds its own copy of the deck
CallerGetDeck(c, code, owner, up) ==
    LET g == GetDeck(decks, code, owner, up)
        to == IF g.err = NoError
              THEN At("holds", "GetDeck", g.deck[1], owner, NoError)
              ELSE [Idle EXCEPT !.pc = "done", !.op = "GetDeck", !.err = g.err]
    IN /\ callers[c].pc = "idle"
       /\ callers' = [callers EXCEPT ![c] = to]
       /\ log' = Append(log, Step(c, "GetDeck", "find", KeyArgs(code, owner), to,
                                  g.calls, Store(decks, cards, sets, users)))
       /\ UNCHANGED <<deck, decks, cards, sets, users, now, accounts>>

\* AddCards by a caller on the copy it holds: the merge, then one replace
CallerAddCards(c, board, contents, up) ==
    LET r == AddCardsResult(callers[c].entity[1], decks, board, contents, up)
        to == At("done", "AddCards", r.deck, callers[c].owner, r.err)
    IN /\ callers[c].pc = "holds"
       /\ callers' = [callers EXCEPT ![c] = to]
       /\ decks' = r.decks
       /\ log' = Append(log, Step(c, "AddCards", "replace",
                                  [board |-> board, contents |-> contents], to,
                                  r.calls, Store(r.decks, cards, sets, users)))
       /\ UNCHANGED <<deck, cards, sets, users, now, accounts>>

\* NewDeck up to the probe: the identifier check and the owner's lookup
CallerNewDeck(c, d, owner, up) ==
    LET o == ResolveOwner(users, owner, up)
        to == IF MissingId(d.Name, d.Code)
              THEN At("done", "NewDeck", d, owner, ErrDeckMissingId)
              ELSE IF o.err # NoError THEN At("done", "NewDeck", d, owner, o.err)
              ELSE At("probe", "NewDeck", d, o.owner, NoError)
    IN /\ callers[c].pc = "idle"
       /\ callers' = [callers EXCEPT ![c] = to]
       /\ log' = Append(log, Step(c, "NewDeck", "owner", CreateArgs(d, owner), to,
                                  IF MissingId(d.Name, d.Code) THEN <<>> ELSE o.calls,
                                  Store(decks, cards, sets, users)))
       /\ UNCHANGED <<deck, decks, cards, sets, users, now, accounts>>

\* NewDeck's existence probe
CallerProbeDeck(c, up) ==
    LET d == callers[c].entity[1]
        g == GetDeck(decks, d.Code, callers[c].owner, up)
        to == IF g.err # ErrNoDeck
              THEN At("done", "NewDeck", d, callers[c].owner, ErrDeckAlreadyExists)
              ELSE At("insert", "NewDeck", d, callers[c].owner, NoError)
    IN /\ callers[c].pc = "probe"
       /\ callers[c].op = "NewDeck"
       /\ callers' = [callers EXCEPT ![c] = to]
       /\ log' = Append(log, Step(c, "NewDeck", "probe",
                                  KeyArgs(d.Code, callers[c].owner), to, g.calls,
                                  Store(decks, cards, sets, users)))
       /\ UNCHANGED <<deck, decks, cards, sets, users, now, accounts>>

\* NewDeck's insert; NewDeck returns nil whatever the insert did
CallerInsertDeck(c, up) ==
    LET filled == FilledDeck(callers[c].entity[1], callers[c].owner)
        ins == DatabaseInsert(decks, filled, up)
        to == At("done", "NewDeck", filled, callers[c].owner, NoError)
    IN /\ callers[c].pc = "insert"
       /\ callers[c].op = "NewDeck"
       /\ callers' = [callers EXCEPT ![c] = to]
       /\ decks' = ins.coll
       /\ log' = Append(log, Step(c, "NewDeck", "insert",
                                  KeyArgs(filled.Code, callers[c].owner), to,
                                  <<StoreCall("Insert", "deck", Query(filled.Code, ""),
                                              <<filled>>, up, ins.ok)>>,
                                  Store(ins.coll, cards, sets, users)))
       /\ UNCHANGED <<deck, cards, sets, users, now, accounts>>

\* NewCard up to the probe: the identifier check and the owner's lookup
CallerNewCard(c, card, owner, up) ==
    LET o == ResolveOwner(users, owner, up)
        missing == \/ card.Identifiers = <<>>
                   \/ MissingId(card.Name, CardId(card))
        to == IF missing THEN At("done", "NewCard", card, owner, ErrCardMissingId)
              ELSE IF o.err # NoError THEN At("done", "NewCard", card, owner, o.err)
              ELSE At("probe", "NewCard", card, o.owner, NoError)
    IN /\ callers[c].pc = "idle"
       /\ callers' = [callers EXCEPT ![c] = to]
       /\ log' = Append(log, Step(c, "NewCard", "owner", CreateArgs(card, owner), to,
                                  IF missing THEN <<>> ELSE o.calls,
                                  Store(decks, cards, sets, users)))
       /\ UNCHANGED <<deck, decks, cards, sets, users, now, accounts>>

\* NewCard's existence probe
CallerProbeCard(c, up) ==
    LET card == callers[c].entity[1]
        g == GetCard(cards, CardId(card), callers[c].owner, up)
        to == IF g.err # ErrNoCard
              THEN At("done", "NewCard", card, callers[c].owner, ErrCardAlreadyExist)
              ELSE At("insert", "NewCard", card, callers[c].owner, NoError)
    IN /\ callers[c].pc = "probe"
       /\ callers[c].op = "NewCard"
       /\ callers' = [callers EXCEPT ![c] = to]
       /\ log' = Append(log, Step(c, "NewCard", "probe",
                                  KeyArgs(CardId(card), callers[c].owner), to, g.calls,
                                  Store(decks, cards, sets, users)))
       /\ UNCHANGED <<deck, decks, cards, sets, users, now, accounts>>

\* NewCard's insert; NewCard returns nil whatever the insert did
CallerInsertCard(c, up) ==
    LET filled == FilledCard(callers[c].entity[1], callers[c].owner)
        ins == DatabaseInsert(cards, filled, up)
        to == At("done", "NewCard", filled, callers[c].owner, NoError)
    IN /\ callers[c].pc = "insert"
       /\ callers[c].op = "NewCard"
       /\ callers' = [callers EXCEPT ![c] = to]
       /\ cards' = ins.coll
       /\ log' = Append(log, Step(c, "NewCard", "insert",
                                  KeyArgs(CardId(filled), callers[c].owner), to,
                                  <<StoreCall("Insert", "card", Query(CardId(filled), ""),
                                              <<filled>>, up, ins.ok)>>,
                                  Store(decks, ins.coll, sets, users)))
       /\ UNCHANGED <<deck, decks, sets, users, now, accounts>>

----------------------------------------------------------------------------
(* Accounts: the user repository together with the identity provider *)

ErrInvalidPasswordLength == "ErrInvalidPasswordLength"
ErrFailedToRegisterUser == "ErrFailedToRegisterUser"
\* the error of the management API, which DeactivateUser returns as it is
ErrManagement == "management API error"

\* the shortest password RegisterUser accepts
MinPasswordLength == 12

\* the ID the identity provider gives the account of an email address
SignupId(email) ==
    CASE email = Alice -> "auth0-alice"
      [] email = Carol -> "auth0-carol"
      [] OTHER -> "auth0-other"

\* a call to the identity provider and whether it returned without error
ProviderCall(fn, key, up, ok) == [fn |-> fn, key |-> key, up |-> up, ok |-> ok]

\* Database.Signup: a new account, unless the provider fails or already has
\* an account for the email address
Signup(accts, username, email, up) ==
    IF up /\ \A k \in 1..Len(accts) : accts[k].Email # email
    THEN [accounts |-> Append(accts, [Email |-> email, Username |-> username,
                                      ID |-> SignupId(email)]),
          ok |-> TRUE, ID |-> SignupId(email)]
    ELSE [accounts |-> accts, ok |-> FALSE, ID |-> ""]

\* the management API's id of the account behind a local user
UserId(auth0Id) == [connection |-> "auth0", id |-> auth0Id]

\* User.Delete of the management API: the account with the id is gone
ManagementDelete(accts, userId, up) ==
    IF up /\ userId.connection = "auth0"
    THEN [accounts |-> SelectSeq(accts, LAMBDA a : a.ID # userId.id), ok |-> TRUE]
    ELSE [accounts |-> accts, ok |-> FALSE]

\* the result of an account operation: the user it returns, the user
\* collection and the provider's accounts after it, the error, the store
\* calls and the provider calls in order
Accounted(user, coll, accts, err, calls, provider) ==
    [user |-> user, coll |-> coll, accounts |-> accts, err |-> err,
     calls |-> calls, provider |-> provider]

\* RegisterUser: the email and the length of the password are checked, the
\* account is signed up, then NewUser stores the user with the account's ID
RegisterUserResult(username, email, password, coll, accts, f) ==
    LET ret == [Username |-> username, Email |-> email, Auth0Id |-> "",
                OwnedCards |-> <<>>, OwnedSets |-> <<>>, OwnedDecks |-> <<>>]
        s == Signup(accts, username, email, f.signup)
        n == NewUserResult([ret EXCEPT !.Auth0Id = s.ID], coll, f)
        sent == <<ProviderCall("Signup", email, f.signup, s.ok)>>
    IN IF ~validateEmail(email) THEN Accounted(ret, coll, accts, ErrInvalidEmail, <<>>, <<>>)
       ELSE IF password < MinPasswordLength
       THEN Accounted(ret, coll, accts, ErrInvalidPasswordLength, <<>>, <<>>)
       ELSE IF ~s.ok
       THEN Accounted(ret, coll, accts, ErrFailedToRegisterUser, <<>>, sent)
       ELSE Accounted(n.entity, n.coll, s.accounts, n.err, n.calls, sent)

\* DeactivateUser: GetUser, DeleteUser, then the delete of the account
DeactivateUserResult(email, coll, accts, f) ==
    LET g == GetUser(coll, email, f.find) IN
    IF g.err # NoError THEN Accounted(<<>>, coll, accts, g.err, g.calls, <<>>)
    ELSE LET d == DeleteUserResult(coll, email, f.probe, f.delete) IN
         IF d.err # NoError
         THEN Accounted(g.user, d.coll, accts, d.err, g.calls \o d.calls, <<>>)
         ELSE LET m == ManagementDelete(accts, UserId(g.user[1].Auth0Id), f.provider)
              IN Accounted(g.user, d.coll, m.accounts,
                           IF m.ok THEN NoError ELSE ErrManagement,
                           g.calls \o d.calls,
                           <<ProviderCall("Delete", UserId(g.user[1].Auth0Id),
                                          f.provider, m.ok)>>)

\* a call of the log together with the provider's accounts around it and the
\* calls made to the provider
WithProvider(call, after, sent) ==
    [provider |-> [before |-> accounts, after |-> after, calls |-> sent]] @@ call

RegisterUser(username, email, password, f) ==
    LET r == RegisterUserResult(username, email, password, users, accounts, f) IN
    /\ users' = r.coll
    /\ accounts' = r.accounts
    /\ log' = Append(log, WithProvider(
                   Returned(Call("RegisterUser",
                                 [username |-> username, email |-> email,
                                  password |-> password],
                                 r.err, r.calls, deck,
                                 Store(decks, cards, sets, r.coll)),
                            <<r.user>>),
                   r.accounts, r.provider))
    /\ UNCHANGED <<deck, decks, cards, sets, now, callers>>

DeactivateUser(email, f) ==
    LET r == DeactivateUserResult(email, users, accounts, f) IN
    /\ users' = r.coll
    /\ accounts' = r.accounts
    /\ log' = Append(log, WithProvider(
                   Call("DeactivateUser", KeyArgs(email, ""), r.err, r.calls, deck,
                        Store(decks, cards, sets, r.coll)),
                   r.accounts, r.provider))
    /\ UNCHANGED <<deck, decks, cards, sets, now, callers>>

----------------------------------------------------------------------------
\* time passes between calls
Tick ==
    /\ now < MaxClock
    /\ now' = now + 1
    /\ UNCHANGED <<deck, decks, cards, sets, users, log, callers, accounts>>

----------------------------------------------------------------------------
(* Spec: the board reconciler.  A caller holding a deck of the store makes *)
(* up to MaxCalls AddCards / RemoveCards calls, each with any board name,  *)
(* any delta map and a store that may fail the call.                       *)

\* card identifiers callers put on boards (AddCards does not validate them)
CardIds == {"card-A", "card-B"}
\* quantities a caller may pass: a negative one, zero and positive ones
DeltaQty == (0 - 1)..MaxDelta
\* every delta map over CardIds
Deltas == UNION {[ids -> DeltaQty] : ids \in SUBSET CardIds}
\* board names a caller may pass: the three of the source and another
BoardArgs == BoardNames \cup {"maybeBoard"}

\* a deck as NewDeck stored it at time 0, with the boards the caller gave it
DeckOf(code, main, side, commander) ==
    [Code |-> code, Name |-> "Deck One", ReleaseDate |-> <<0>>,
     MtgjsonApiMeta |-> <<Meta(SystemUser, "Deck", 0, 0)>>,
     Contents |-> <<Boards(main, side, commander)>>]

InitDecks ==
    {DeckOf("DCK1", EmptyBoard, EmptyBoard, EmptyBoard),
     DeckOf("DCK1", [id \in CardIds |-> IF id = "card-A" THEN 1 ELSE 2],
                    [id \in {"card-A"} |-> 2], [id \in {"card-B"} |-> 1]),
     DeckOf("", [id \in {"card-A"} |-> 1], EmptyBoard, EmptyBoard)}

Init ==
    /\ deck \in InitDecks
    /\ decks = IF deck.Code = "" THEN <<>> ELSE <<deck>>
    /\ cards = <<>>
    /\ sets = <<>>
    /\ users = <<>>
    /\ now = 1
    /\ log = <<>>
    /\ callers = <<>>
    /\ accounts = <<>>

CallAddCards ==
    /\ Len(log) < MaxCalls
    /\ \E board \in BoardArgs, contents \in Deltas, up \in BOOLEAN :
          AddCards(board, contents, up)

CallRemoveCards ==
    /\ Len(log) < MaxCalls
    /\ \E board \in BoardArgs, contents \in Deltas, up \in BOOLEAN :
          RemoveCards(board, contents, up)

Next == CallAddCards \/ CallRemoveCards

Spec == Init /\ [][Next]_vars

----------------------------------------------------------------------------
(* SpecCreate: the create operations.  Over a store that holds one user,   *)
(* a caller makes up to MaxCalls create calls, each with any entity of the *)
(* pools below, any owner and store calls that may fail.                   *)

UnsavedDeck(name, code) ==
    [Code |-> code, Name |-> name, ReleaseDate |-> <<>>, MtgjsonApiMeta |-> <<>>,
     Contents |-> <<>>]

UnsavedSet(name, code) ==
    [Code |-> code, Name |-> name, ReleaseDate |-> <<>>, MtgjsonApiMeta |-> <<>>,
     ContentIds |-> <<>>]

UnsavedCard(identifiers, name) ==
    [Identifiers |-> identifiers, Name |-> name, LeadershipSkills |-> <<>>,
     PurchaseUrls |-> <<>>, Legalities |-> <<>>, RelatedCards |-> <<>>,
     Rulings |-> <<>>, SourceProducts |-> <<>>, ForeignData |-> <<>>,
     MtgjsonApiMeta |-> <<>>]

UnsavedUser(username, email, auth0Id) ==
    [Username |-> username, Email |-> email, Auth0Id |-> auth0Id,
     OwnedCards |-> <<>>, OwnedSets |-> <<>>, OwnedDecks |-> <<>>]

\* owners a caller may pass: none, the system user, a user, a stranger
Owners == {"", SystemUser, Alice, Bob}

\* owners a create may be given: those, and a string that is no email address
CreateOwners == Owners \cup {NotAnEmail}
Faults == [owner : BOOLEAN, probe : BOOLEAN, insert : BOOLEAN]
AllUp == [owner |-> TRUE, probe |-> TRUE, insert |-> TRUE]

DeckArgs == {UnsavedDeck(name, code) : name \in {"", "Deck One"}, code \in {"", "DCK1"}}
SetArgs == {UnsavedSet(name, code) : name \in {"", "Alpha"}, code \in {"", "LEA"}}
CardArgs ==
    {UnsavedCard(<<>>, "Opt")} \cup
    {UnsavedCard(<<[MtgjsonV4Id |-> id]>>, name) :
        name \in {"", "Opt"}, id \in {"", UuidA, UuidV4}}
UserArgs ==
    {UnsavedUser(username, email, auth0Id) :
        username \in {"", "carol"}, email \in {"", Carol, NotAnEmail},
        auth0Id \in {"", "auth0-carol"}}

InitCreate ==
    /\ deck = UnsavedDeck("Deck One", "DCK1")
    /\ decks = <<>>
    /\ cards = <<>>
    /\ sets = <<>>
    /\ users = <<UnsavedUser("alice", Alice, "auth0-alice")>>
    /\ now = 0
    /\ log = <<>>
    /\ callers = <<>>
    /\ accounts = <<>>

CreateUser ==
    /\ Len(log) < MaxCalls
    /\ \E u \in UserArgs, f \in Faults : NewUser(u, f)

CreateCard ==
    /\ Len(log) < MaxCalls
    /\ \E card \in CardArgs, owner \in CreateOwners, f \in Faults : NewCard(card, owner, f)

CreateSet ==
    /\ Len(log) < MaxCalls
    /\ \E s \in SetArgs, owner \in CreateOwners, f \in Faults : NewSet(s, owner, f)

CreateDeck ==
    /\ Len(log) < MaxCalls
    /\ \E d \in DeckArgs, owner \in CreateOwners, f \in Faults : NewDeck(d, owner, f)

NextCreate == CreateUser \/ CreateCard \/ CreateSet \/ CreateDeck \/ Tick

SpecCreate == InitCreate /\ [][NextCreate]_vars

----------------------------------------------------------------------------
(* SpecScenario: a deck from its creation on.  The caller creates a deck   *)
(* with NewDeck over an empty store, then makes up to ScenarioCalls        *)
(* AddCards / RemoveCards calls on its main board with positive            *)
(* quantities; the store answers every call and time may pass between      *)
(* the calls.                                                              *)

\* delta maps over CardIds with quantities 1..ScenarioQty
ScenarioDeltas == UNION {[ids -> 1..ScenarioQty] : ids \in SUBSET CardIds}

InitScenario ==
    /\ deck = UnsavedDeck("Deck One", "DCK1")
    /\ decks = <<>>
    /\ cards = <<>>
    /\ sets = <<>>
    /\ users = <<>>
    /\ now = 0
    /\ log = <<>>
    /\ callers = <<>>
    /\ accounts = <<>>

ScenarioNewDeck ==
    /\ log = <<>>
    /\ NewDeck(deck, "", AllUp)

ScenarioAddCards ==
    /\ log # <<>>
    /\ Len(log) <= ScenarioCalls
    /\ \E contents \in ScenarioDeltas : AddCards(BoardMainboard, contents, TRUE)

ScenarioRemoveCards ==
    /\ log # <<>>
    /\ Len(log) <= ScenarioCalls
    /\ \E contents \in ScenarioDeltas : RemoveCards(BoardMainboard, contents, TRUE)

NextScenario == ScenarioNewDeck \/ ScenarioAddCards \/ ScenarioRemoveCards \/ Tick

SpecScenario == InitScenario /\ [][NextScenario]_vars

----------------------------------------------------------------------------
(* SpecStore: get, delete and replace over a store in which the same key   *)
(* may be held for more than one owner.  The caller holds its copy of      *)
(* Alice's deck and makes up to MaxCalls calls, each with any key, any     *)
(* owner and a store that may fail the call.                               *)

\* the owners, in natural order, of the documents stored for the one key
OwnerLists ==
    {<<>>, <<Alice>>, <<SystemUser>>, <<Alice, SystemUser>>, <<SystemUser, Alice>>}

\* the deck, the set and the card NewDeck, NewSet and NewCard stored for an owner
OwnedDeck(owner) ==
    [DeckOf("DCK1",
            IF owner = Alice THEN [id \in {"card-A"} |-> 1] ELSE [id \in {"card-B"} |-> 2],
            EmptyBoard, EmptyBoard)
        EXCEPT !.MtgjsonApiMeta = <<Meta(owner, "Deck", 0, 0)>>]

OwnedSet(owner) ==
    [UnsavedSet("Alpha", "LEA")
        EXCEPT !.ReleaseDate = <<0>>, !.MtgjsonApiMeta = <<Meta(owner, "Set", 0, 0)>>]

OwnedCard(owner) == FilledCard(UnsavedCard(<<[MtgjsonV4Id |-> UuidA]>>, "Opt"), owner)

InitStore ==
    /\ now = 0
    /\ deck = OwnedDeck(Alice)
    /\ \E owners \in OwnerLists :
           /\ decks = [k \in 1..Len(owners) |-> OwnedDeck(owners[k])]
           /\ sets = [k \in 1..Len(owners) |-> OwnedSet(owners[k])]
           /\ cards = [k \in 1..Len(owners) |-> OwnedCard(owners[k])]
    /\ users = <<UnsavedUser("alice", Alice, "auth0-alice")>>
    /\ log = <<>>
    /\ callers = <<>>
    /\ accounts = <<>>

StoreGetDeck ==
    /\ Len(log) < MaxCalls
    /\ \E code \in {"DCK1", "DCK2"}, owner \in Owners, up \in BOOLEAN :
           ReadDeck(code, owner, up)

StoreGetSet ==
    /\ Len(log) < MaxCalls
    /\ \E code \in {"LEA", "ARN"}, owner \in Owners, up \in BOOLEAN :
           ReadSet(code, owner, up)

StoreGetCard ==
    /\ Len(log) < MaxCalls
    /\ \E uuid \in {UuidA, UuidV4}, owner \in Owners, up \in BOOLEAN :
           ReadCard(uuid, owner, up)

StoreDeleteDeck ==
    /\ Len(log) < MaxCalls
    /\ \E code \in {"DCK1", "DCK2"}, owner \in Owners, up \in BOOLEAN :
           DeleteDeck(code, owner, up)

StoreDeleteSet ==
    /\ Len(log) < MaxCalls
    /\ \E code \in {"LEA", "ARN"}, owner \in Owners, up \in BOOLEAN :
           DeleteSet(code, owner, up)

StoreDeleteCard ==
    /\ Len(log) < MaxCalls
    /\ \E uuid \in {UuidA, UuidV4}, owner \in Owners, up \in BOOLEAN :
           DeleteCard(uuid, owner, up)

StoreDeleteUser ==
    /\ Len(log) < MaxCalls
    /\ \E email \in {"", NotAnEmail, Alice, Bob}, upFind \in BOOLEAN, upDelete \in BOOLEAN :
           DeleteUser(email, upFind, upDelete)

StoreAddCards ==
    /\ Len(log) < MaxCalls
    /\ \E up \in BOOLEAN : AddCards(BoardMainboard, [id \in {"card-A"} |-> 1], up)

NextStore ==
    \/ StoreGetDeck \/ StoreGetSet \/ StoreGetCard
    \/ StoreDeleteDeck \/ StoreDeleteSet \/ StoreDeleteCard \/ StoreDeleteUser
    \/ StoreAddCards

SpecStore == InitStore /\ [][NextStore]_vars

----------------------------------------------------------------------------
(* SpecContents: the contents resolver.  The caller holds a stored deck,   *)
(* or a deck or a set that is not fit for the call, over a card collection *)
(* that holds some of the cards; it makes up to MaxCalls calls of          *)
(* AddCards, GetDeckContents and GetSetContents.                           *)

\* the card NewCard stored for an identifier and an owner
StoredCard(uuid, owner) == FilledCard(UnsavedCard(<<[MtgjsonV4Id |-> uuid]>>, "Opt"), owner)

\* card collections: empty, one card, both cards in either order, and a card
\* held for two owners
CardStocks ==
    {<<>>,
     <<StoredCard(UuidA, SystemUser)>>,
     <<StoredCard(UuidA, SystemUser), StoredCard(UuidB, SystemUser)>>,
     <<StoredCard(UuidB, SystemUser), StoredCard(UuidA, SystemUser)>>,
     <<StoredCard(UuidA, SystemUser), StoredCard(UuidB, SystemUser),
       StoredCard(UuidA, Alice)>>}

\* boards over the two identifiers
NoCards == EmptyBoard
OnlyA(q) == [id \in {UuidA} |-> q]
OnlyB(q) == [id \in {UuidB} |-> q]
BothCards(qa, qb) == [id \in {UuidA, UuidB} |-> IF id = UuidA THEN qa ELSE qb]

\* decks a caller may hold: stored decks with cards on their boards, a deck
\* without contents, a deck without a code and a deck without an owner
ContentsDecks ==
    {DeckOf("DCK1", main, side, commander) :
        main \in {NoCards, OnlyA(1), BothCards(2, 1)},
        side \in {NoCards, OnlyA(3)},
        commander \in {NoCards, OnlyB(1)}}
    \cup {UnsavedDeck("Deck One", "DCK1"),
          DeckOf("", OnlyA(1), NoCards, NoCards),
          [DeckOf("DCK1", OnlyA(1), NoCards, NoCards)
              EXCEPT !.MtgjsonApiMeta = <<Meta("", "Deck", 0, 0)>>]}

\* sets a caller may hold: with and without a code, with and without ids
ContentsSets ==
    {[OwnedSet(SystemUser) EXCEPT !.Code = code, !.ContentIds = ids] :
        code \in {"", "LEA"}, ids \in {<<>>, <<UuidA>>, <<UuidA, UuidB>>}}

InitContents ==
    /\ now = 0
    /\ deck \in ContentsDecks
    /\ decks = IF deck.Code = "" \/ deck.Contents = <<>> THEN <<>> ELSE <<deck>>
    /\ cards \in CardStocks
    /\ sets = <<>>
    /\ users = <<>>
    /\ log = <<>>
    /\ callers = <<>>
    /\ accounts = <<>>

ContentsAddCards ==
    /\ Len(log) < MaxCalls
    /\ deck.Contents # <<>>
    /\ \E board \in BoardNames, id \in {UuidA, UuidB}, quantity \in 0..1 :
           AddCards(board, [x \in {id} |-> quantity], TRUE)

ContentsGetDeckContents ==
    /\ Len(log) < MaxCalls
    /\ \E up \in BOOLEAN : GetDeckContents(up)

ContentsGetSetContents ==
    /\ Len(log) < MaxCalls
    /\ \E s \in ContentsSets, up \in BOOLEAN : GetSetContents(s, up)

NextContents == ContentsAddCards \/ ContentsGetDeckContents \/ ContentsGetSetContents

SpecContents == InitContents /\ [][NextContents]_vars

----------------------------------------------------------------------------
(* Two callers whose store calls interleave: each reads deck DCK1 and adds *)
(* cards to its copy, or creates a deck or a card with the same key        *)

Callers == {1, 2}

\* what the callers add to their copies
RaceDeltas == {[id \in {"card-A"} |-> 1], [id \in {"card-A"} |-> 2],
               [id \in {"card-B"} |-> 1]}

\* the owners the racing creates are made for
RaceOwners == {SystemUser, Alice}

\* the deck and the card both callers create
RaceDeck == UnsavedDeck("Deck Two", "DCK2")

RaceCard == UnsavedCard(<<[MtgjsonV4Id |-> UuidA]>>, "Opt")

InitRace ==
    /\ now = 0
    /\ \E main \in {EmptyBoard, [id \in {"card-A"} |-> 1]} :
           deck = [DeckOf("DCK1", main, EmptyBoard, EmptyBoard)
                      EXCEPT !.MtgjsonApiMeta = <<Meta(Alice, "Deck", 0, 0)>>]
    /\ decks = <<deck>>
    /\ cards = <<>>
    /\ sets = <<>>
    /\ users = <<UnsavedUser("alice", Alice, "auth0-alice")>>
    /\ log = <<>>
    /\ callers = [c \in Callers |-> Idle]
    /\ accounts = <<>>

RaceGetDeck ==
    \E c \in Callers, owner \in {"", Alice}, up \in BOOLEAN :
        CallerGetDeck(c, "DCK1", owner, up)

RaceAddCards ==
    \E c \in Callers, board \in {"mainBoard", "sideBoard"},
       contents \in RaceDeltas, up \in BOOLEAN :
        CallerAddCards(c, board, contents, up)

RaceNewDeck ==
    \E c \in Callers, owner \in RaceOwners : CallerNewDeck(c, RaceDeck, owner, TRUE)

RaceProbeDeck == \E c \in Callers : CallerProbeDeck(c, TRUE)

RaceInsertDeck == \E c \in Callers, up \in BOOLEAN : CallerInsertDeck(c, up)

RaceNewCard ==
    \E c \in Callers, owner \in RaceOwners : CallerNewCard(c, RaceCard, owner, TRUE)

RaceProbeCard == \E c \in Callers : CallerProbeCard(c, TRUE)

RaceInsertCard == \E c \in Callers, up \in BOOLEAN : CallerInsertCard(c, up)

NextRace ==
    \/ RaceGetDeck \/ RaceAddCards
    \/ RaceNewDeck \/ RaceProbeDeck \/ RaceInsertDeck
    \/ RaceNewCard \/ RaceProbeCard \/ RaceInsertCard

SpecRace == InitRace /\ [][NextRace]_vars

----------------------------------------------------------------------------
(* SpecAccount: registrations and deactivations.  Over a user collection   *)
(* and a provider that hold no user, a registered user, or a registered    *)
(* user and a user NewUser stored, a caller makes up to MaxCalls calls     *)
(* with calls to the store and to the provider that may fail.              *)

\* the user RegisterUser stored for alice, and the user NewUser stored for
\* carol, who has no account
RegisteredAlice == UnsavedUser("alice", Alice, SignupId(Alice))
LocalCarol == UnsavedUser("carol", Carol, SignupId(Carol))
AliceAccount == [Email |-> Alice, Username |-> "alice", ID |-> SignupId(Alice)]

\* lengths of the passwords a caller may pass
PasswordLengths == {MinPasswordLength - 1, MinPasswordLength}

RegisterFaults == [signup : BOOLEAN, probe : BOOLEAN, insert : BOOLEAN]
DeactivateFaults == [find : BOOLEAN, probe : BOOLEAN, delete : BOOLEAN, provider : BOOLEAN]

InitAccount ==
    /\ now = 0
    /\ deck = UnsavedDeck("Deck One", "DCK1")
    /\ decks = <<>>
    /\ cards = <<>>
    /\ sets = <<>>
    /\ \/ users = <<>> /\ accounts = <<>>
       \/ users = <<RegisteredAlice>> /\ accounts = <<AliceAccount>>
       \/ users = <<RegisteredAlice, LocalCarol>> /\ accounts = <<AliceAccount>>
    /\ log = <<>>
    /\ callers = <<>>

AccountRegisterUser ==
    /\ Len(log) < MaxCalls
    /\ \E username \in {"", "carol"}, email \in {NotAnEmail, Alice, Carol},
          password \in PasswordLengths, f \in RegisterFaults :
           RegisterUser(username, email, password, f)

AccountDeactivateUser ==
    /\ Len(log) < MaxCalls
    /\ \E email \in {"", NotAnEmail, Alice, Carol}, f \in DeactivateFaults :
           DeactivateUser(email, f)

NextAccount == AccountRegisterUser \/ AccountDeactivateUser

SpecAccount == InitAccount /\ [][NextAccount]_vars

----------------------------------------------------------------------------
(* SpecSet: removals from a set.  A caller who holds the stored set, or the *)
(* stored set without its meta block, makes up to MaxCalls RemoveCards      *)
(* calls with any list of up to two card ids.                               *)

\* the content identifiers the stored set may begin with
SetIdLists ==
    {<<>>, <<UuidA>>, <<UuidA, UuidB>>, <<UuidA, UuidA>>, <<UuidA, UuidB, UuidA>>,
     <<UuidA, UuidA, UuidB>>, <<UuidB, UuidA, UuidA>>}

\* the lists of card ids a caller may pass
RemoveLists ==
    {<<>>} \cup {<<a>> : a \in {UuidA, UuidB}}
           \cup {<<a, b>> : a \in {UuidA, UuidB}, b \in {UuidA, UuidB}}

InitSet ==
    /\ now = 0
    /\ deck = UnsavedDeck("Deck One", "DCK1")
    /\ decks = <<>>
    /\ cards = <<>>
    /\ \E ids \in SetIdLists : sets = <<[OwnedSet(SystemUser) EXCEPT !.ContentIds = ids]>>
    /\ users = <<>>
    /\ log = <<>>
    /\ callers = <<>>
    /\ accounts = <<>>

SetCallRemoveCards ==
    /\ Len(log) < MaxCalls
    /\ \E s \in {sets[1], [sets[1] EXCEPT !.MtgjsonApiMeta = <<>>]},
          uuids \in RemoveLists, cleared \in BOOLEAN, up \in BOOLEAN :
           SetRemoveCards(s, uuids, cleared, up)

NextSet == SetCallRemoveCards \/ Tick

SpecSet == InitSet /\ [][NextSet]_vars

----------------------------------------------------------------------------
(* Properties of the board reconciler, checked under Spec *)

\* the board of a deck that the name selects
Board(d, board) ==
    IF board = "mainBoard" THEN d.Contents[1].MainBoard
    ELSE IF board = "sideBoard" THEN d.Contents[1].SideBoard
    ELSE d.Contents[1].Commander

\* all quantities of the board are positive
Positive(b) == \A id \in DOMAIN b : b[id] > 0

BoardOps == {"AddCards", "RemoveCards"}

\* the call passes the validation of AddCards / RemoveCards
PassesValidation(e) ==
    /\ e.op \in BoardOps
    /\ e.before.Code # ""
    /\ e.args.board \in BoardNames

\* C1: after any sequence of AddCards and RemoveCards calls on a deck whose
\* boards held only positive quantities, no key of the main board, the side
\* board or the commander board maps to a quantity of zero or less.
C1_NoQuantityZeroOrLess ==
    \A board \in BoardNames : Positive(Board(deck, board))

\* calls i and i+1 are a successful AddCards followed by a successful
\* RemoveCards with the same board name and the same delta, on a board that
\* held only positive quantities
RoundTrip(i) ==
    /\ log[i].op = "AddCards" /\ log[i + 1].op = "RemoveCards"
    /\ PassesValidation(log[i])
    /\ log[i + 1].args = log[i].args
    /\ log[i].err = NoError /\ log[i + 1].err = NoError
    /\ Positive(Board(log[i].before, log[i].args.board))

\* the round trip left the board as it was before the AddCards
Restored(i) ==
    Board(log[i + 1].after, log[i].args.board) = Board(log[i].before, log[i].args.board)

\* C2 as stated: for every board of positive quantities and every delta D,
\* AddCards with D followed by RemoveCards with D leaves the board as it was.
C2_RoundTripEveryDelta ==
    \A i \in 1..(Len(log) - 1) : RoundTrip(i) => Restored(i)

\* C2, amended: for every board of positive quantities and every delta D
\* whose quantities are all zero or more, AddCards with D followed by
\* RemoveCards with D leaves the board as it was: the same keys with the same
\* quantities, none of them zero.
C2_RoundTrip ==
    \A i \in 1..(Len(log) - 1) :
        /\ RoundTrip(i)
        /\ \A id \in DOMAIN log[i].args.contents : log[i].args.contents[id] >= 0
        => /\ Restored(i)
           /\ Positive(Board(log[i + 1].after, log[i].args.board))

\* a round trip whose delta has a positive quantity for an id of the board, an
\* id that is not on the board and a quantity of zero
C2_Witness ==
    /\ Len(log) = 2
    /\ RoundTrip(1)
    /\ LET D == log[1].args.contents
           B == Board(log[1].before, log[1].args.board)
       IN /\ \A id \in DOMAIN D : D[id] >= 0
          /\ \E id \in DOMAIN D \cap DOMAIN B : D[id] > 0
          /\ \E id \in DOMAIN D \ DOMAIN B : D[id] = 0
    /\ deck = log[2].after

\* C4: after a successful AddCards(deck, board, D) the selected board holds,
\* for every id of D, the old quantity plus D[id] when the id was there with
\* a non-zero quantity and D[id] otherwise; every id that is not in D keeps
\* its quantity; the two other boards are unchanged.
C4_AddCardsMerges ==
    \A i \in 1..Len(log) :
        log[i].op = "AddCards" /\ log[i].err = NoError =>
            LET D == log[i].args.contents
                old == Board(log[i].before, log[i].args.board)
                new == Board(log[i].after, log[i].args.board)
            IN /\ DOMAIN new = DOMAIN old \cup DOMAIN D
               /\ \A id \in DOMAIN D :
                      new[id] = IF id \in DOMAIN old /\ old[id] # 0
                                THEN old[id] + D[id]
                                ELSE D[id]
               /\ \A id \in DOMAIN old \ DOMAIN D : new[id] = old[id]
               /\ \A other \in BoardNames \ {log[i].args.board} :
                      Board(log[i].after, other) = Board(log[i].before, other)

\* a successful AddCards whose delta names an id the board holds and an id
\* it does not hold, on a deck whose other boards are not empty
C4_Witness ==
    \E i \in 1..Len(log) :
        /\ log[i].op = "AddCards" /\ log[i].err = NoError
        /\ LET D == log[i].args.contents
               old == Board(log[i].before, log[i].args.board)
           IN /\ \E id \in DOMAIN D \cap DOMAIN old : old[id] # 0 /\ D[id] > 0
              /\ \E id \in DOMAIN D \ DOMAIN old : D[id] > 0
        /\ \A other \in BoardNames \ {log[i].args.board} :
               Board(log[i].before, other) # EmptyBoard
        /\ log[i].store.after.decks = <<log[i].after>>

\* C5: after a successful RemoveCards(deck, board, D), an id of D that was on
\* the board with quantity q is absent when q - D[id] is zero and maps to
\* q - D[id] otherwise; an id of D that was not on the board stays absent;
\* every id that is not in D keeps its quantity.
C5_RemoveCardsSubtracts ==
    \A i \in 1..Len(log) :
        log[i].op = "RemoveCards" /\ log[i].err = NoError =>
            LET D == log[i].args.contents
                old == Board(log[i].before, log[i].args.board)
                new == Board(log[i].after, log[i].args.board)
            IN /\ \A id \in DOMAIN D \cap DOMAIN old :
                      IF old[id] - D[id] = 0
                      THEN id \notin DOMAIN new
                      ELSE id \in DOMAIN new /\ new[id] = old[id] - D[id]
               /\ \A id \in DOMAIN D \ DOMAIN old : id \notin DOMAIN new
               /\ \A id \in DOMAIN old \ DOMAIN D :
                      id \in DOMAIN new /\ new[id] = old[id]

\* the call returned before anything changed: the caller's deck and the
\* store are as they were and no call went to the store
NothingDone(e) ==
    /\ e.after = e.before
    /\ \A b \in BoardNames : Board(e.after, b) = Board(e.before, b)
    /\ \A k \in 1..Len(e.calls) : e.calls[k].fn # "Replace"
    /\ e.calls = <<>>
    /\ e.store.after = e.store.before

\* C7: AddCards and RemoveCards with a board name that is none of the three
\* board names return ErrBoardNotExist, leave the three boards as they were
\* and issue no replace; with an empty deck code they return
\* ErrDeckMissingId and likewise change and replace nothing.
C7_RejectedBeforeAnyChange ==
    \A i \in 1..Len(log) :
        log[i].op \in BoardOps =>
            /\ log[i].before.Code # "" /\ log[i].args.board \notin BoardNames
               => log[i].err = ErrBoardNotExist /\ NothingDone(log[i])
            /\ log[i].before.Code = ""
               => log[i].err = ErrDeckMissingId /\ NothingDone(log[i])

\* an AddCards and a RemoveCards with an unknown board name and a delta that
\* would have changed every board of a stored deck that has cards
C7_Witness ==
    /\ Len(log) = 2
    /\ log[1].op = "AddCards" /\ log[2].op = "RemoveCards"
    /\ \A i \in 1..2 :
           /\ log[i].before.Code # ""
           /\ log[i].args.board \notin BoardNames
           /\ \A id \in CardIds :
                  id \in DOMAIN log[i].args.contents /\ log[i].args.contents[id] > 0
           /\ log[i].err = ErrBoardNotExist
    /\ \A b \in BoardNames : Board(deck, b) # EmptyBoard
    /\ decks = <<deck>>

\* what the merge of one entry leaves on the board, 0 for no entry: q is the
\* quantity the board had for the id (0 for none), d the quantity of the delta
MergedQuantity(op, q, d) ==
    IF op = "AddCards"
    THEN (IF q # 0 THEN q + d ELSE d)
    ELSE (IF q # 0 THEN q - d ELSE 0)

\* C8: each AddCards or RemoveCards call that passes validation issues
\* exactly one call to the store, a replace, and the document it sends is the
\* deck with every entry of the delta merged into the board.
C8_OneReplaceAfterTheMerge ==
    \A i \in 1..Len(log) :
        PassesValidation(log[i]) =>
            /\ Len(log[i].calls) = 1
            /\ log[i].calls[1].fn = "Replace"
            /\ log[i].calls[1].coll = "deck"
            /\ Len(log[i].calls[1].doc) = 1
            /\ LET sent == Board(log[i].calls[1].doc[1], log[i].args.board)
                   old == Board(log[i].before, log[i].args.board)
                   D == log[i].args.contents
               IN /\ \A id \in DOMAIN D :
                         Lookup(sent, id) = MergedQuantity(log[i].op, Lookup(old, id), D[id])
                  /\ \A id \in DOMAIN old \ DOMAIN D :
                         id \in DOMAIN sent /\ sent[id] = old[id]
                  /\ log[i].calls[1].doc[1] = log[i].after
            /\ log[i].calls[1].ok =>
                   log[i].store.after.decks = <<log[i].after>>

\* an AddCards and a RemoveCards that pass validation, whose deltas have two
\* entries that both change the board, and whose replace the store accepted
C8_Witness ==
    /\ Len(log) = 2
    /\ log[1].op = "AddCards" /\ log[2].op = "RemoveCards"
    /\ \A i \in 1..2 :
           /\ PassesValidation(log[i])
           /\ DOMAIN log[i].args.contents = CardIds
           /\ \A id \in CardIds :
                  Lookup(Board(log[i].after, log[i].args.board), id)
                      # Lookup(Board(log[i].before, log[i].args.board), id)
           /\ log[i].calls[1].ok
    /\ decks = <<deck>>

----------------------------------------------------------------------------
(* Properties of a deck from its creation on, checked under SpecScenario *)

\* the calls of the scenario after the NewDeck, in order
Scenario ==
    <<[op |-> "AddCards",
       contents |-> [id \in {"card-A", "card-B"} |-> IF id = "card-A" THEN 2 ELSE 1]],
      [op |-> "AddCards", contents |-> [id \in {"card-A"} |-> 1]],
      [op |-> "RemoveCards", contents |-> [id \in {"card-A"} |-> 3]]>>

\* the main board the scenario expects after each of its calls
Expected ==
    <<[id \in {"card-A", "card-B"} |-> IF id = "card-A" THEN 2 ELSE 1],
      [id \in {"card-A", "card-B"} |-> IF id = "card-A" THEN 3 ELSE 1],
      [id \in {"card-B"} |-> 1]>>

\* the log starts with the NewDeck and the first n calls of the scenario
Played(n) ==
    /\ Len(log) >= n + 1
    /\ log[1].op = "NewDeck"
    /\ \A k \in 1..n :
           /\ log[k + 1].op = Scenario[k].op
           /\ log[k + 1].args = [board |-> "mainBoard", contents |-> Scenario[k].contents]

\* C3: a newly created deck has three empty boards; AddCards(mainBoard,
\* {A:2, B:1}) yields the main board {A:2, B:1}, a following
\* AddCards(mainBoard, {A:1}) yields {A:3, B:1}, and a following
\* RemoveCards(mainBoard, {A:3}) yields {B:1} with no key A on the board.
C3_Scenario ==
    /\ Played(0) =>
           /\ log[1].err = NoError
           /\ \A b \in BoardNames : Board(log[1].after, b) = EmptyBoard
    /\ \A n \in 1..Len(Scenario) :
           Played(n) =>
               /\ log[n + 1].err = NoError
               /\ Board(log[n + 1].after, "mainBoard") = Expected[n]
               /\ Board(log[n + 1].store.after.decks[1], "mainBoard") = Expected[n]
    /\ Played(Len(Scenario)) => "card-A" \notin DOMAIN Board(log[Len(Scenario) + 1].after, "mainBoard")

\* the whole scenario has been played
C3_Witness ==
    /\ Played(Len(Scenario))
    /\ Len(log) = Len(Scenario) + 1
    /\ deck = log[Len(log)].after
    /\ DOMAIN Board(deck, "mainBoard") = {"card-B"}

\* C6: every successful AddCards or RemoveCards call that changes a board
\* sets the ModifiedDate of the deck's meta block before the replace: the
\* document sent to the store, and the stored one, carry the time of the call.
C6_ModifiedDateRefreshed ==
    \A i \in 1..Len(log) :
        /\ log[i].op \in BoardOps
        /\ log[i].err = NoError
        /\ Board(log[i].after, log[i].args.board) # Board(log[i].before, log[i].args.board)
        => /\ log[i].calls # <<>>
           /\ log[i].calls[1].doc[1].MtgjsonApiMeta[1].ModifiedDate = log[i].at
           /\ log[i].store.after.decks[1].MtgjsonApiMeta[1].ModifiedDate = log[i].at

----------------------------------------------------------------------------
(* Properties of the create operations, checked under SpecCreate *)

CreateOps == {"NewUser", "NewCard", "NewSet", "NewDeck"}

\* the name and the natural key a create call was given; a card without
\* identifiers has no key
NameOf(e) == IF e.op = "NewUser" THEN e.args.entity.Username ELSE e.args.entity.Name
KeyOf(e) ==
    IF e.op = "NewUser" THEN e.args.entity.Email
    ELSE IF e.op = "NewCard"
    THEN (IF e.args.entity.Identifiers = <<>> THEN ""
          ELSE e.args.entity.Identifiers[1].MtgjsonV4Id)
    ELSE e.args.entity.Code

\* the owner scope of a create call: no owner stands for the system user
ScopeOf(e) ==
    IF e.op = "NewUser" THEN "" ELSE IF e.args.owner = "" THEN "system" ELSE e.args.owner

\* the collection of the store a create call inserts into
CollectionOf(store, op) ==
    IF op = "NewUser" THEN store.users
    ELSE IF op = "NewCard" THEN store.cards
    ELSE IF op = "NewSet" THEN store.sets
    ELSE store.decks

\* the natural key of a stored document of the collection of `op`
StoredKey(op, doc) ==
    IF op = "NewUser" THEN doc.Email
    ELSE IF op = "NewCard" THEN doc.Identifiers[1].MtgjsonV4Id
    ELSE doc.Code

\* the documents of the collection of `op` with the key in the owner scope
Held(store, op, key, scope) ==
    {k \in 1..Len(CollectionOf(store, op)) :
        LET doc == CollectionOf(store, op)[k] IN
        /\ StoredKey(op, doc) = key
        /\ op # "NewUser" => doc.MtgjsonApiMeta[1].Owner = scope}

\* the entity of the call can be created: it has its required fields, its key
\* has the shape the repository asks for, and its owner is the system user
\* or a stored user
Creatable(e) ==
    /\ NameOf(e) # "" /\ KeyOf(e) # ""
    /\ e.op = "NewUser" => e.args.entity.Auth0Id # "" /\ validateEmail(KeyOf(e))
    /\ e.op = "NewCard" => ValidateUUID(KeyOf(e))
    /\ e.op # "NewUser" =>
           \/ ScopeOf(e) = "system"
           \/ \E k \in 1..Len(e.store.before.users) :
                  e.store.before.users[k].Email = ScopeOf(e)

\* the store answered every call the operation made
Answered(e) == \A k \in 1..Len(e.calls) : e.calls[k].up

AlreadyExists(op) ==
    IF op = "NewUser" THEN ErrUserAlreadyExist
    ELSE IF op = "NewCard" THEN ErrCardAlreadyExist
    ELSE IF op = "NewSet" THEN ErrSetAlreadyExists
    ELSE ErrDeckAlreadyExists

\* calls i and i+1 are two creates of the same kind with the same natural key
\* in the same owner scope, of an entity that can be created and whose key
\* the collection did not hold, over a store that answers
CreatedTwice(i) ==
    /\ log[i].op \in CreateOps /\ log[i + 1].op = log[i].op
    /\ Creatable(log[i]) /\ Creatable(log[i + 1])
    /\ KeyOf(log[i + 1]) = KeyOf(log[i])
    /\ ScopeOf(log[i + 1]) = ScopeOf(log[i])
    /\ Answered(log[i]) /\ Answered(log[i + 1])
    /\ Held(log[i].store.before, log[i].op, KeyOf(log[i]), ScopeOf(log[i])) = {}

\* C9: for Card, Set, Deck and User, two creates in a row with the same
\* natural key and the same owner scope return success and then
\* AlreadyExists, and the collection then holds exactly one document for the
\* key and the owner.
C9_SecondCreateAlreadyExists ==
    \A i \in 1..(Len(log) - 1) :
        CreatedTwice(i) =>
            /\ log[i].err = NoError
            /\ log[i + 1].err = AlreadyExists(log[i].op)
            /\ Cardinality(Held(log[i + 1].store.after, log[i].op,
                                KeyOf(log[i]), ScopeOf(log[i]))) = 1
            /\ log[i + 1].store.after = log[i].store.after

\* two creates of a card in a row for the same key, for a stored user as the
\* owner: the second one probed the user and the card and inserted nothing
C9_Witness ==
    /\ Len(log) = 2
    /\ CreatedTwice(1)
    /\ log[1].op = "NewCard"
    /\ ScopeOf(log[1]) = Alice
    /\ Len(cards) = 1
    /\ Len(log[2].calls) = 2

\* the missing-identifier error of a create
MissingIdError(op) ==
    IF op = "NewCard" THEN ErrCardMissingId
    ELSE IF op = "NewSet" THEN ErrSetMissingId
    ELSE ErrDeckMissingId

\* C10: NewCard, NewSet and NewDeck with an empty name or an empty natural
\* key return the missing-identifier error and make no call to the store,
\* for every owner argument.
C10_MissingIdBeforeTheStore ==
    \A i \in 1..Len(log) :
        /\ log[i].op \in {"NewCard", "NewSet", "NewDeck"}
        /\ NameOf(log[i]) = "" \/ KeyOf(log[i]) = ""
        => /\ log[i].err = MissingIdError(log[i].op)
           /\ log[i].calls = <<>>
           /\ log[i].store.after = log[i].store.before

\* a NewDeck with a code and no name for an owner who is no user, then a
\* NewCard with a name and an empty identifier for a stored user
C10_Witness ==
    /\ Len(log) = 2
    /\ log[1].op = "NewDeck" /\ NameOf(log[1]) = "" /\ KeyOf(log[1]) # ""
    /\ log[1].args.owner = Bob
    /\ log[2].op = "NewCard" /\ NameOf(log[2]) # "" /\ KeyOf(log[2]) = ""
    /\ log[2].args.entity.Identifiers # <<>>
    /\ log[2].args.owner = Alice
    /\ log[1].err = ErrDeckMissingId /\ log[2].err = ErrCardMissingId
    /\ decks = <<>> /\ cards = <<>>

\* C11: when the insert of a create (NewCard, NewSet, NewDeck, NewUser)
\* fails, the create returns an error; a create never returns success while
\* the document is absent from the store.
C11_InsertFailureSurfaced ==
    \A i \in 1..Len(log) :
        log[i].op \in CreateOps =>
            /\ \A k \in 1..Len(log[i].calls) :
                   log[i].calls[k].fn = "Insert" /\ ~log[i].calls[k].ok
                   => log[i].err # NoError
            /\ log[i].err = NoError
               => Held(log[i].store.after, log[i].op, KeyOf(log[i]), ScopeOf(log[i])) # {}

\* C20: every operation issues at most one call to the store per invocation,
\* a create at most two (the probe, then the insert), for every owner
\* argument.
C20_AtMostOneStoreCall ==
    \A i \in 1..Len(log) :
        Len(log[i].calls) <= (IF log[i].op \in CreateOps THEN 2 ELSE 1)

----------------------------------------------------------------------------
(* Properties of get, delete and replace, checked under SpecStore *)

\* C12: ReplaceDeck, and so AddCards and RemoveCards, returns
\* ErrDeckUpdateFailed when the replace reaches the store and no stored deck
\* has the deck's code; it returns success only when a stored document was
\* replaced.
C12_ReplaceOfNoDocumentFails ==
    \A i \in 1..Len(log) :
        PassesValidation(log[i]) /\ log[i].calls[1].up =>
            /\ (\A k \in 1..Len(log[i].store.before.decks) :
                    log[i].store.before.decks[k].Code # log[i].before.Code)
               => log[i].err = ErrDeckUpdateFailed
            /\ log[i].err = NoError
               => \E k \in 1..Len(log[i].store.after.decks) :
                      log[i].store.after.decks[k] = log[i].after

GetOps == {"GetDeck", "GetSet", "GetCard"}
DeleteOps == {"DeleteDeck", "DeleteSet", "DeleteCard"}

\* the collection of the store a get or a delete works on
Docs(store, op) ==
    IF op \in {"GetDeck", "DeleteDeck"} THEN store.decks
    ELSE IF op \in {"GetSet", "DeleteSet"} THEN store.sets
    ELSE store.cards

\* the documents of that collection, by index, with the key of the call and,
\* when the call names an owner, with that owner
Matching(e, store) ==
    {k \in 1..Len(Docs(store, e.op)) :
        LET doc == Docs(store, e.op)[k] IN
        /\ e.args.key = (IF e.op \in {"GetCard", "DeleteCard"}
                         THEN doc.Identifiers[1].MtgjsonV4Id ELSE doc.Code)
        /\ e.args.owner # "" => doc.MtgjsonApiMeta[1].Owner = e.args.owner}

\* the sequence without its k-th element
Without(s, k) == [j \in 1..(Len(s) - 1) |-> IF j < k THEN s[j] ELSE s[j + 1]]

\* the call removed exactly one document, one that matches, and nothing else
RemovedOne(e) ==
    /\ \E k \in Matching(e, e.store.before) :
           Docs(e.store.after, e.op) = Without(Docs(e.store.before, e.op), k)
    /\ \A other \in DeleteOps \ {e.op} :
           Docs(e.store.after, other) = Docs(e.store.before, other)
    /\ e.store.after.users = e.store.before.users

NotFound(op) ==
    IF op \in {"GetDeck", "DeleteDeck"} THEN ErrNoDeck
    ELSE IF op \in {"GetSet", "DeleteSet"} THEN ErrNoSet
    ELSE ErrNoCard

\* a delete returns success if and only if it removed exactly one matching
\* document; when no document matches it returns NotFound and changes nothing
DeletesOne(e) ==
    /\ e.err = NoError <=> RemovedOne(e)
    /\ e.err # NoError => e.store.after = e.store.before
    /\ Matching(e, e.store.before) = {}
       => e.err = NotFound(e.op) /\ e.store.after = e.store.before

\* calls i and i+1 are the same delete, and the first one succeeded
DeletedTwice(i) ==
    /\ log[i].op \in DeleteOps /\ log[i + 1].op = log[i].op
    /\ log[i + 1].args = log[i].args
    /\ log[i].err = NoError

\* C13 as stated: a delete succeeds if and only if it removed exactly one
\* matching document, returns NotFound when none matches, and a second
\* delete of the same key after a successful one returns NotFound.
C13_SecondDeleteNotFound ==
    /\ \A i \in 1..Len(log) : log[i].op \in DeleteOps => DeletesOne(log[i])
    /\ \A i \in 1..(Len(log) - 1) :
           DeletedTwice(i) => log[i + 1].err = NotFound(log[i].op)

\* C13, amended: a delete succeeds if and only if it removed exactly one
\* matching document, returns NotFound when none matches, and a second
\* delete of the same key and owner after a successful one returns NotFound
\* when the first one removed the only document that matched.
C13_DeleteOne ==
    /\ \A i \in 1..Len(log) : log[i].op \in DeleteOps => DeletesOne(log[i])
    /\ \A i \in 1..(Len(log) - 1) :
           /\ DeletedTwice(i)
           /\ Cardinality(Matching(log[i], log[i].store.before)) = 1
           => log[i + 1].err = NotFound(log[i].op)

\* the same delete of a set for an owner twice over a store that holds the
\* key for two owners: the second delete finds nothing and the other owner's
\* set is still stored
C13_Witness ==
    /\ Len(log) = 2
    /\ DeletedTwice(1)
    /\ log[1].op = "DeleteSet" /\ log[1].args.owner = Alice
    /\ Len(log[1].store.before.sets) = 2
    /\ log[2].calls[1].up
    /\ log[2].err = ErrNoSet
    /\ Len(sets) = 1

----------------------------------------------------------------------------
(* Properties of the contents resolver, checked under SpecContents *)

\* the board of the contents GetDeckContents returned that the name selects
Entries(result, board) ==
    IF board = "mainBoard" THEN result[1].MainBoard
    ELSE IF board = "sideBoard" THEN result[1].SideBoard
    ELSE result[1].Commander

\* the card collection holds a card with the identifier
Resolves(store, id) ==
    \E k \in 1..Len(store.cards) : store.cards[k].Identifiers[1].MtgjsonV4Id = id

\* a GetDeckContents call on a deck that has contents, a code and an owner
Hydrates(e) ==
    /\ e.op = "GetDeckContents"
    /\ e.before.Contents # <<>>
    /\ e.before.Code # ""
    /\ e.before.MtgjsonApiMeta # <<>>
    /\ e.before.MtgjsonApiMeta[1].Owner # ""

\* C15: GetDeckContents on a deck whose every referenced card id is in the
\* card collection returns, for each of the three boards, exactly one entry
\* per id of the board's quantity map, with the board's quantity for the id
\* and the card that has the id, and no entry for any other id.
C15_OneEntryPerId ==
    \A i \in 1..Len(log) :
        /\ Hydrates(log[i])
        /\ log[i].err = NoError
        /\ \A b \in BoardNames : \A id \in DOMAIN Board(log[i].before, b) :
               Resolves(log[i].store.before, id)
        => \A b \in BoardNames :
               LET out == Entries(log[i].result, b)
                   board == Board(log[i].before, b)
               IN /\ DOMAIN out = DOMAIN board
                  /\ \A id \in DOMAIN board :
                         /\ out[id].Quantity = board[id]
                         /\ out[id].Card.Identifiers[1].MtgjsonV4Id = id

\* C16: when a card id of a deck board is not in the card collection,
\* GetDeckContents still succeeds, returns no entry for that id, and leaves
\* the deck's quantity maps and the store as they were.
C16_UnresolvedIdOmitted ==
    \A i \in 1..Len(log) :
        Hydrates(log[i]) /\ log[i].calls[1].up =>
            /\ log[i].err = NoError
            /\ \A b \in BoardNames : \A id \in DOMAIN Board(log[i].before, b) :
                   /\ ~Resolves(log[i].store.before, id)
                      => id \notin DOMAIN Entries(log[i].result, b)
                   /\ Resolves(log[i].store.before, id) /\ Board(log[i].before, b)[id] # 0
                      => id \in DOMAIN Entries(log[i].result, b)
            /\ log[i].after = log[i].before
            /\ i = Len(log) => deck = log[i].before
            /\ log[i].store.after = log[i].store.before

\* a GetDeckContents on a deck with a card that is stored and a card that is
\* not, both on the main board
C16_Witness ==
    \E i \in 1..Len(log) :
        /\ Hydrates(log[i])
        /\ log[i].err = NoError
        /\ Resolves(log[i].store.before, UuidA)
        /\ ~Resolves(log[i].store.before, UuidB)
        /\ DOMAIN Board(log[i].before, "mainBoard") = {UuidA, UuidB}
        /\ DOMAIN Entries(log[i].result, "mainBoard") = {UuidA}
        /\ UuidB \in DOMAIN Board(deck, "mainBoard")

\* C17: GetDeckContents and GetSetContents on a deck or a set without its
\* content identifiers or without a natural key return a missing-contents or
\* missing-identifier error and make no call to the store.
C17_RejectedBeforeTheStore ==
    \A i \in 1..Len(log) :
        /\ log[i].op = "GetDeckContents" =>
               /\ log[i].before.Contents = <<>>
                  => log[i].err = ErrDeckMissingContentIds /\ log[i].calls = <<>>
               /\ log[i].before.Contents # <<>> /\ log[i].before.Code = ""
                  => log[i].err = ErrDeckMissingId /\ log[i].calls = <<>>
        /\ log[i].op = "GetSetContents" =>
               /\ Len(log[i].args.set.ContentIds) = 0
                  => log[i].err # NoError /\ log[i].calls = <<>>
               /\ Len(log[i].args.set.ContentIds) # 0 /\ log[i].args.set.Code = ""
                  => log[i].err = ErrSetMissingId /\ log[i].calls = <<>>

----------------------------------------------------------------------------
(* Properties of interleaved callers, checked under SpecRace *)

\* the caller's step of an operation that returned nil
Succeeded(e, op, step) == e.op = op /\ e.step = step /\ e.err = NoError

\* callers one and two each read the deck at r1 and r2, both before either
\* replaced it; the first one's AddCards is a1, the second one's a2, both
\* returned nil and they added different things
BothAdded(r1, r2, a1, a2) ==
    /\ r1 < a1 /\ r2 < a1 /\ a1 < a2
    /\ Succeeded(log[r1], "GetDeck", "find")
    /\ Succeeded(log[r2], "GetDeck", "find")
    /\ Succeeded(log[a1], "AddCards", "replace")
    /\ Succeeded(log[a2], "AddCards", "replace")
    /\ log[r1].caller = log[a1].caller
    /\ log[r2].caller = log[a2].caller
    /\ log[a1].caller # log[a2].caller
    /\ log[a1].args # log[a2].args

\* C18: when two callers each read the same stored deck, each AddCards on
\* its own copy with different deltas and both replaces complete, the stored
\* deck is the copy of the caller whose replace completed last, and what the
\* other caller added is not in the store although both calls returned nil.
C18_LastReplaceWins ==
    \A r1, r2, a1, a2 \in 1..Len(log) :
        BothAdded(r1, r2, a1, a2) =>
            LET first == log[a1]
                last == log[a2]
                read == log[r1].local.after[1]
                stored == decks[1]
            IN /\ log[r2].local.after[1] = read
               /\ Len(decks) = 1
               /\ stored = last.local.after[1]
               /\ stored = callers[last.caller].entity[1]
               /\ last.store.after.decks = decks
               /\ \A id \in DOMAIN first.args.contents :
                      Lookup(Board(stored, first.args.board), id) =
                          Lookup(Board(read, first.args.board), id) +
                          (IF last.args.board = first.args.board
                           THEN Lookup(last.args.contents, id) ELSE 0)

\* both callers read the deck, the first one added card-B to the main board
\* and the second one card-A: both returned nil and the stored main board
\* has no card-B
C18_Witness ==
    \E r1, r2, a1, a2 \in 1..Len(log) :
        /\ BothAdded(r1, r2, a1, a2)
        /\ log[a1].args = [board |-> "mainBoard", contents |-> [id \in {"card-B"} |-> 1]]
        /\ log[a2].args = [board |-> "mainBoard", contents |-> [id \in {"card-A"} |-> 2]]
        /\ "card-B" \in DOMAIN Board(callers[log[a1].caller].entity[1], "mainBoard")
        /\ "card-B" \notin DOMAIN Board(decks[1], "mainBoard")

\* the documents of the store with the key and the owner of a create step
Twins(e, store) ==
    IF e.op = "NewDeck"
    THEN {k \in 1..Len(store.decks) :
             /\ store.decks[k].Code = e.args.key
             /\ store.decks[k].MtgjsonApiMeta[1].Owner = e.args.owner}
    ELSE {k \in 1..Len(store.cards) :
             /\ store.cards[k].Identifiers[1].MtgjsonV4Id = e.args.key
             /\ store.cards[k].MtgjsonApiMeta[1].Owner = e.args.owner}

\* two callers of the same create with the same key and owner: the probes p1
\* and p2 both found nothing before either insert, and the inserts i1 and i2
\* both reached a store that answers
BothInserted(p1, p2, i1, i2) ==
    /\ p1 < i1 /\ p2 < i1 /\ i1 < i2
    /\ log[p1].op \in {"NewDeck", "NewCard"}
    /\ \A k \in {p2, i1, i2} : log[k].op = log[p1].op /\ log[k].args = log[p1].args
    /\ \A k \in {p1, p2} : log[k].step = "probe" /\ log[k].pc = "insert"
    /\ \A k \in {i1, i2} : log[k].step = "insert" /\ log[k].calls[1].up
    /\ log[p1].caller = log[i1].caller
    /\ log[p2].caller = log[i2].caller
    /\ log[i1].caller # log[i2].caller

\* C19: two NewDeck or two NewCard calls with the same key and owner whose
\* probes both ran before either insert both find nothing, both insert and
\* both return nil, and the collection then holds two documents with the
\* key and the owner.
C19_BothCreatesInsert ==
    \A p1, p2, i1, i2 \in 1..Len(log) :
        BothInserted(p1, p2, i1, i2) =>
            /\ Twins(log[p1], log[p1].store.before) = {}
            /\ Twins(log[p2], log[p2].store.before) = {}
            /\ log[i1].err = NoError
            /\ log[i2].err = NoError
            /\ \A c \in Callers : callers[c].pc = "done" /\ callers[c].err = NoError
            /\ Cardinality(Twins(log[i2], log[i2].store.after)) = 2
            /\ Cardinality(Twins(log[i2], Store(decks, cards, sets, users))) = 2

\* two NewDeck calls for deck DCK2 of Alice that both probed before either
\* inserted: both returned nil and the deck collection holds two decks DCK2
\* of Alice
C19_Witness ==
    \E p1, p2, i1, i2 \in 1..Len(log) :
        /\ BothInserted(p1, p2, i1, i2)
        /\ log[p1].op = "NewDeck"
        /\ log[p1].args = KeyArgs("DCK2", Alice)
        /\ \A c \in Callers : callers[c].pc = "done" /\ callers[c].err = NoError
        /\ Len(decks) = 3
        /\ decks[2].Code = "DCK2" /\ decks[3].Code = "DCK2"
        /\ decks[2].MtgjsonApiMeta[1].Owner = Alice
        /\ decks[3].MtgjsonApiMeta[1].Owner = Alice

----------------------------------------------------------------------------
(* Properties of card identifiers, checked under SpecStore *)

\* C21: GetCard, DeleteCard and NewCard called with a card identifier that
\* fails ValidateUUID return an error and issue no call to the store.
C21_MalformedIdNeverReachesStore ==
    \A i \in 1..Len(log) :
        \/ log[i].op \in {"GetCard", "DeleteCard"} /\ ~ValidateUUID(log[i].args.key)
        \/ /\ log[i].op = "NewCard"
           /\ KeyOf(log[i]) # ""
           /\ ~ValidateUUID(KeyOf(log[i]))
        => log[i].err # NoError /\ log[i].calls = <<>>

----------------------------------------------------------------------------
(* Properties of the owner of a create, checked under SpecCreate *)

\* a NewCard, NewSet or NewDeck call of an entity that has its name and key
OwnedCreate(e) ==
    /\ e.op \in {"NewCard", "NewSet", "NewDeck"}
    /\ NameOf(e) # "" /\ KeyOf(e) # ""

\* the owner of the call is given, is not the system user and is no stored user
OwnerUnknown(e) ==
    /\ e.args.owner \notin {"", SystemUser}
    /\ \A k \in 1..Len(e.store.before.users) :
           e.store.before.users[k].Email # e.args.owner

\* the call stopped at the owner: nothing stored and nothing asked of the
\* collection of the entity
StoppedAtOwner(e) ==
    /\ e.store.after = e.store.before
    /\ \A k \in 1..Len(e.calls) : e.calls[k].coll = "user"

\* a create without an owner makes no user lookup, and what it stores is
\* owned by the system user
SystemOwned(e) ==
    /\ \A k \in 1..Len(e.calls) : e.calls[k].coll # "user"
    /\ e.err = NoError /\ Answered(e) =>
           LET coll == CollectionOf(e.store.after, e.op) IN
           /\ Len(coll) = Len(CollectionOf(e.store.before, e.op)) + 1
           /\ coll[Len(coll)].MtgjsonApiMeta[1].Owner = SystemUser

\* C22 as stated: NewCard, NewSet and NewDeck with an owner that is given, is
\* not the system user and is no stored user return the owner-not-found
\* error, insert nothing and do not probe the entity collection; with an empty
\* owner the created document is owned by the system user and no user lookup
\* is made.
C22_UnknownOwnerNotFound ==
    \A i \in 1..Len(log) :
        OwnedCreate(log[i]) =>
            /\ OwnerUnknown(log[i])
               => log[i].err = ErrNoUser /\ StoppedAtOwner(log[i])
            /\ log[i].args.owner = "" => SystemOwned(log[i])

\* C22, amended: such a create returns the error of the owner's lookup, which
\* is the owner-not-found error for an owner with the shape of an email
\* address and the invalid-email error, with no call to the store at all, for
\* any other owner; it inserts nothing and does not probe the entity
\* collection; with an empty owner the created document is owned by the
\* system user and no user lookup is made.
C22_UnknownOwnerRejected ==
    \A i \in 1..Len(log) :
        OwnedCreate(log[i]) =>
            /\ OwnerUnknown(log[i]) =>
                   /\ StoppedAtOwner(log[i])
                   /\ validateEmail(log[i].args.owner)
                      => log[i].err = ErrNoUser /\ Len(log[i].calls) = 1
                   /\ ~validateEmail(log[i].args.owner)
                      => log[i].err = ErrInvalidEmail /\ log[i].calls = <<>>
            /\ log[i].args.owner = "" => SystemOwned(log[i])

\* a NewDeck for an owner who is no stored user, then a NewCard without an
\* owner: the first looked the user up and stored nothing, the second stored
\* a card of the system user
C22_Witness ==
    /\ Len(log) = 2
    /\ OwnedCreate(log[1]) /\ OwnedCreate(log[2])
    /\ log[1].op = "NewDeck" /\ log[1].args.owner = Bob
    /\ log[1].err = ErrNoUser /\ Len(log[1].calls) = 1
    /\ decks = <<>>
    /\ log[2].op = "NewCard" /\ log[2].args.owner = ""
    /\ log[2].err = NoError
    /\ Len(cards) = 1 /\ cards[1].MtgjsonApiMeta[1].Owner = SystemUser

----------------------------------------------------------------------------
(* Properties of the card lookup of GetDeckContents, checked under *)
(* SpecContents                                                    *)

\* the card ids the boards of a deck reference
Referenced(d) == UNION {DOMAIN Board(d, b) : b \in BoardNames}

\* C23: a GetDeckContents call that passes its checks issues exactly one
\* store call, a FindMultiple on the card collection, whatever the number of
\* cards and boards of the deck, and no lookup by card or by board.
C23_OneBatchedLookup ==
    \A i \in 1..Len(log) :
        Hydrates(log[i]) =>
            /\ Len(log[i].calls) = 1
            /\ log[i].calls[1].fn = "FindMultiple"
            /\ log[i].calls[1].coll = "card"
            /\ \A id \in Referenced(log[i].before) :
                   \E k \in 1..Len(log[i].calls[1].query.key) :
                       log[i].calls[1].query.key[k] = id

\* a GetDeckContents on a deck with two cards on the main board, one on the
\* side board and one as commander: one lookup, and three entries returned
C23_Witness ==
    \E i \in 1..Len(log) :
        /\ Hydrates(log[i])
        /\ log[i].err = NoError
        /\ Cardinality(DOMAIN Board(log[i].before, "mainBoard")) = 2
        /\ DOMAIN Board(log[i].before, "sideBoard") # {}
        /\ DOMAIN Board(log[i].before, "commander") # {}
        /\ DOMAIN Entries(log[i].result, "mainBoard") = {UuidA, UuidB}
        /\ DOMAIN Entries(log[i].result, "sideBoard") = {UuidA}
        /\ Len(log[i].calls) = 1

\* C24: the list of keys GetDeckContents passes to the card lookup holds each
\* referenced card id exactly once, also when the id is on more than one
\* board.
C24_EachKeyOnce ==
    \A i \in 1..Len(log) :
        Hydrates(log[i]) =>
            LET keys == log[i].calls[1].query.key IN
            \A id \in Referenced(log[i].before) :
                Cardinality({k \in 1..Len(keys) : keys[k] = id}) = 1

----------------------------------------------------------------------------
(* Properties of the existence probe of a create, checked under SpecCreate *)

\* C25: a create returns AlreadyExists only when the collection held a
\* document with the key in the owner scope of the call; NewCard with an
\* identifier that is not a valid UUID, or a create whose probe failed, does
\* not return AlreadyExists.
C25_AlreadyExistsOnlyWhenStored ==
    \A i \in 1..Len(log) :
        log[i].op \in CreateOps /\ log[i].err = AlreadyExists(log[i].op) =>
            Held(log[i].store.before, log[i].op, KeyOf(log[i]), ScopeOf(log[i])) # {}

----------------------------------------------------------------------------
(* Properties of a failed replace, checked under Spec *)

\* C26: when the replace of an AddCards or RemoveCards call fails and the
\* call returns ErrDeckUpdateFailed, the board of the caller's deck holds the
\* merged quantities and the store is as it was; after such a call on a deck
\* that was the stored one, with a delta that changes the board, the
\* caller's deck and the stored deck differ.
C26_FailedReplaceLeavesMerge ==
    \A i \in 1..Len(log) :
        PassesValidation(log[i]) /\ log[i].err = ErrDeckUpdateFailed =>
            LET e == log[i]
                old == Board(e.before, e.args.board)
                new == Board(e.after, e.args.board)
            IN /\ ~e.calls[1].ok
               /\ \A id \in DOMAIN e.args.contents :
                      Lookup(new, id) = MergedQuantity(e.op, Lookup(old, id),
                                                       e.args.contents[id])
               /\ \A id \in DOMAIN old \ DOMAIN e.args.contents :
                      id \in DOMAIN new /\ new[id] = old[id]
               /\ e.store.after = e.store.before
               /\ i = Len(log) => deck = e.after /\ decks = e.store.before.decks
               /\ e.store.before.decks = <<e.before>> /\ new # old
                  => e.store.after.decks # <<e.after>>

\* an AddCards of two cards to the main board whose replace failed: the
\* caller's main board holds the sums and the stored one what it held
C26_Witness ==
    /\ Len(log) = 1
    /\ log[1].op = "AddCards" /\ log[1].args.board = "mainBoard"
    /\ log[1].err = ErrDeckUpdateFailed
    /\ log[1].args.contents = [id \in CardIds |-> 2]
    /\ Board(log[1].before, "mainBoard") = [id \in CardIds |-> IF id = "card-A" THEN 1 ELSE 2]
    /\ Board(deck, "mainBoard") = [id \in CardIds |-> IF id = "card-A" THEN 3 ELSE 4]
    /\ Len(decks) = 1
    /\ Board(decks[1], "mainBoard") = Board(log[1].before, "mainBoard")

----------------------------------------------------------------------------
(* Properties of decks with one code and different owners, checked under *)
(* SpecStore                                                             *)

\* C27: when decks with the same code are stored for two owners, an AddCards
\* or RemoveCards on the deck of one owner leaves the stored deck of the
\* other owner as it was.
C27_OtherOwnersDeckUntouched ==
    \A i \in 1..Len(log) :
        PassesValidation(log[i]) =>
            \A k \in 1..Len(log[i].store.before.decks) :
                OwnerOf(log[i].store.before.decks[k]) # OwnerOf(log[i].before)
                => /\ k <= Len(log[i].store.after.decks)
                   /\ log[i].store.after.decks[k] = log[i].store.before.decks[k]

----------------------------------------------------------------------------
(* Properties of registration and deactivation, checked under SpecAccount *)

\* the provider holds an account for the email address
HasAccount(accts, email) == \E k \in 1..Len(accts) : accts[k].Email = email

\* the user collection holds a user with the email address
HasUser(store, email) == \E k \in 1..Len(store.users) : store.users[k].Email = email

\* the call made a call to the provider that returned without error
Provided(e) == \E k \in 1..Len(e.provider.calls) : e.provider.calls[k].ok

\* C28: RegisterUser rejects an email address without the shape of one and a
\* password of fewer than 12 characters before any call to the provider,
\* inserts the local user only after a signup, and whenever it returns an
\* error either no signup was made or the provider holds no account for the
\* email address; an account it opened has a local user.
C28_NoAccountWithoutUser ==
    \A i \in 1..Len(log) :
        log[i].op = "RegisterUser" =>
            LET e == log[i] IN
            /\ ~validateEmail(e.args.email) \/ e.args.password < MinPasswordLength
               => e.err # NoError /\ e.provider.calls = <<>> /\ e.calls = <<>>
            /\ e.calls # <<>> => Provided(e)
            /\ e.err # NoError
               => ~Provided(e) \/ ~HasAccount(e.provider.after, e.args.email)
            /\ HasAccount(e.provider.after, e.args.email)
               /\ ~HasAccount(e.provider.before, e.args.email)
               => HasUser(e.store.after, e.args.email)

\* C29: DeactivateUser removes the user from the store and from the provider
\* or from neither; whenever it returns an error the user collection is as it
\* was; it issues the delete on the store only for a stored user and the
\* delete at the provider only after the delete on the store succeeded.
C29_BothOrNeither ==
    \A i \in 1..Len(log) :
        log[i].op = "DeactivateUser" =>
            LET e == log[i] IN
            /\ e.err # NoError => e.store.after.users = e.store.before.users
            /\ (\E k \in 1..Len(e.calls) : e.calls[k].fn = "Delete")
               => HasUser(e.store.before, e.args.key)
            /\ e.provider.calls # <<>>
               => \E k \in 1..Len(e.calls) : e.calls[k].fn = "Delete" /\ e.calls[k].ok
            /\ (e.store.after.users # e.store.before.users)
               <=> (e.provider.after # e.provider.before)

----------------------------------------------------------------------------
(* Properties of the removal of cards from a set, checked under SpecSet *)

\* the elements of a list that are not in another, in their order
Except(ids, uuids) ==
    SelectSeq(ids, LAMBDA id : \A k \in 1..Len(uuids) : uuids[k] # id)

\* C30: after a successful RemoveCards of a set no id of the list is left in
\* the set's ContentIds, the other ids are all kept in their order, and with
\* an empty list the set is unchanged and no store call is made.
C30_ListedIdsRemoved ==
    \A i \in 1..Len(log) :
        log[i].op = "RemoveCards" /\ log[i].err = NoError =>
            LET e == log[i] IN
            /\ e.result[1].ContentIds = Except(e.args.set.ContentIds, e.args.cards)
            /\ Len(e.args.cards) = 0
               => /\ e.result[1] = e.args.set
                  /\ e.calls = <<>>
                  /\ e.store.after = e.store.before

====
